---- MODULE Spec2Model ----
(***************************************************************************)
(* Watch-history behavioural analytics: the engine pipeline (normalizer,   *)
(* session reconstructor, view classifier, streak detector, repeat-view    *)
(* aggregator, temporal aggregator, snapshot assembler), the Firestore     *)
(* heatmap helper, the display components that read the snapshot, and the  *)
(* watch-history store of the frontend.                                    *)
(*                                                                         *)
(* Times are seconds since the epoch; durations are seconds.               *)
(***************************************************************************)
EXTENDS Integers, Sequences, FiniteSets, TLC

VARIABLES
    history,        \* raw history records of the run at hand (input order)
    pc,             \* engine: "idle" | "ready" (a batch waits to be run)
    events,         \* ViewEvents the normalizer accepted, input order
    dropped,        \* number of DroppedEntry diagnostics of the run
    sessions,       \* Session Reconstructor output: sequence of event sequences
    classified,     \* View Classifier output: sessions with `algorithmic` set
    streaks,        \* Streak Detector output: sequence of ShortsStreak
    repeat_views,   \* Repeat-View Aggregator output
    heatmap,        \* Temporal Aggregator output: [0..6 -> [0..23 -> Nat]]
    assembled,      \* snapshot the assembler built in this run (stage-local)
    reassembled,    \* snapshot of a further assembly from the same stage outputs
    snapshot,       \* the stored snapshot of the user, or NoSnapshot
    engineState,    \* "no_snapshot" | "snapshot_ready"
    runResult,      \* "none" | "ok" | "EmptyHistory"
    shown,          \* what the dashboard components render from their analytics
    watchSessions,  \* Firestore collection watchSessions (sequence of documents)
    watchTimeHeatmap, \* last result of getWatchTimeHeatmap
    store,          \* state of useWatchHistoryStore
    uploadProc,     \* the uploadTakeout call in progress, if any
    statusProc,     \* the loadStatus call of the dashboard effect
    analyticsProc,  \* the loadAnalytics call of the dashboard effect
    deleteProc,     \* the deleteHistory call in progress, if any
    clock,          \* Date.now(), milliseconds
    refreshLog,     \* which steps of the last refresh failed (loadStatus, loadAnalytics)
    importData,     \* processWatchHistory: the watchHistoryData it was given
    importPos,      \* processWatchHistory: index of the video at hand
    importPhase,    \* "stats" | "session" | "done" | "thrown"
    importNow,      \* Timestamp.now() of the video at hand, milliseconds
    videoStats,     \* Firestore collection videoStats (sequence of documents)
    dataStore,      \* state of useDataStore
    authUser,       \* the user Firebase Auth reports, or NoUser
    authCount,      \* number of auth-state changes so far
    authCallbacks,  \* auth listener calls awaiting createOrUpdateUser
    profileUnsubscriber,     \* initializeAuth: which listener call's profile
                             \* subscription the variable cancels, 0 for null
    preferencesUnsubscriber, \* the same for the preferences subscription
    subscriptions,  \* active Firestore subscriptions
    dataCalls       \* requests of useDataStore in flight

engineVars == <<history, pc, events, dropped, sessions, classified, streaks,
                repeat_views, heatmap, assembled, reassembled, snapshot, engineState,
                runResult>>

firestoreVars == <<watchSessions, watchTimeHeatmap>>

storeVars == <<store, uploadProc, statusProc, analyticsProc, deleteProc, clock,
               refreshLog>>

importVars == <<importData, importPos, importPhase, importNow, videoStats>>

dataVars == <<dataStore, authUser, authCount, authCallbacks, profileUnsubscriber,
              preferencesUnsubscriber, subscriptions, dataCalls>>

restVars == <<importVars, dataVars>>

vars == <<engineVars, shown, firestoreVars, storeVars, restVars>>

-----------------------------------------------------------------------------
(* Values *)

Unknown == 0 - 1            \* duration_seconds absent
Unparsable == 0 - 2         \* watched_at that does not parse as an instant
NoVideoId == "none"         \* video_id absent and not resolvable
Null == [null |-> TRUE]     \* null / undefined of the frontend
NoSnapshot == Null          \* nothing stored for the user

InactivityThreshold == 1800
DurationCap == 10800
ShortMaxSeconds == 60
DefaultShortSeconds == 30

Provenances == {"recommended", "subscription_feed", "notification",
                "search", "direct_link", "unknown"}

Min(a, b) == IF a <= b THEN a ELSE b
Max(a, b) == IF a >= b THEN a ELSE b

RECURSIVE SumRange(_, _, _)
SumRange(s, lo, hi) ==
    IF lo > hi THEN 0
    ELSE IF lo = hi THEN s[lo]
         ELSE LET mid == (lo + hi) \div 2
              IN  SumRange(s, lo, mid) + SumRange(s, mid + 1, hi)

SumSeq(s) == SumRange(s, 1, Len(s))

RECURSIVE Flatten(_)
Flatten(ss) == IF ss = <<>> THEN <<>> ELSE ss[1] \o Flatten(Tail(ss))

-----------------------------------------------------------------------------
(* 4.1 Event Normalizer *)

\* is_short is derived at normalization time
IsShortOf(duration_seconds, short_flag) ==
    IF duration_seconds # Unknown
    THEN duration_seconds <= ShortMaxSeconds
    ELSE short_flag = "true"

Acceptable(r) == r.video_id # NoVideoId /\ r.watched_at # Unparsable

ToViewEvent(r, position) ==
    [video_id         |-> r.video_id,
     watched_at       |-> r.watched_at,
     duration_seconds |-> r.duration_seconds,
     is_short         |-> IsShortOf(r.duration_seconds, r.short_flag),
     provenance       |-> r.provenance,
     pos              |-> position]

RECURSIVE NormalizeFrom(_, _)
NormalizeFrom(raw, i) ==
    IF i > Len(raw) THEN <<>>
    ELSE IF Acceptable(raw[i])
         THEN <<ToViewEvent(raw[i], i)>> \o NormalizeFrom(raw, i + 1)
         ELSE NormalizeFrom(raw, i + 1)

Normalize(raw) == NormalizeFrom(raw, 1)

-----------------------------------------------------------------------------
(* 4.2 Session Reconstructor *)

\* (mutant) e goes before the events of the same instant: ties are reordered
InsertSortedUnstable(e, s) ==
    LET k == Cardinality({i \in 1..Len(s) : s[i].watched_at < e.watched_at})
    IN  SubSeq(s, 1, k) \o <<e>> \o SubSeq(s, k + 1, Len(s))

\* stable insertion: e goes after every event that is not later than it
InsertSorted(e, s) ==
    LET k == Cardinality({i \in 1..Len(s) : s[i].watched_at <= e.watched_at})
    IN  SubSeq(s, 1, k) \o <<e>> \o SubSeq(s, k + 1, Len(s))

RECURSIVE SortEvents(_)
SortEvents(s) ==
    IF s = <<>> THEN <<>>
    ELSE InsertSorted(s[Len(s)], SortEvents(SubSeq(s, 1, Len(s) - 1)))

EffectiveEnd(e) ==
    IF e.duration_seconds = Unknown THEN e.watched_at
    ELSE e.watched_at + Min(e.duration_seconds, DurationCap)

\* (mutant) a gap equal to the threshold already splits
StartsNewSessionAtThreshold(prev, e) ==
    e.watched_at - EffectiveEnd(prev) >= InactivityThreshold

StartsNewSession(prev, e) ==
    e.watched_at - EffectiveEnd(prev) > InactivityThreshold

RECURSIVE SplitSessions(_, _, _)
\* done: the closed sessions; cur: the open session; rest: events still to place
SplitSessions(done, cur, rest) ==
    IF rest = <<>> THEN Append(done, cur)
    ELSE IF StartsNewSession(cur[Len(cur)], rest[1])
         THEN SplitSessions(Append(done, cur), <<rest[1]>>, Tail(rest))
         ELSE SplitSessions(done, Append(cur, rest[1]), Tail(rest))

ReconstructSessions(evts) ==
    LET sorted == SortEvents(evts)
    IN  IF sorted = <<>> THEN <<>>
        ELSE SplitSessions(<<>>, <<sorted[1]>>, Tail(sorted))

-----------------------------------------------------------------------------
(* 4.3 View Classifier *)

AlgorithmicProvenances == {"recommended", "subscription_feed", "notification"}
IntentionalProvenances == {"search", "direct_link"}

CountWhere(s, Test(_)) == Cardinality({i \in 1..Len(s) : Test(s[i])})

\* majority classification of the known-provenance events of the session;
\* no majority (none known, or a tie) leaves the default, not algorithmic
SessionMajorityOrTie(session) ==
    LET alg == CountWhere(session, LAMBDA e : e.provenance \in AlgorithmicProvenances)
        int == CountWhere(session, LAMBDA e : e.provenance \in IntentionalProvenances)
    IN  alg >= int

SessionMajority(session) ==
    LET alg == CountWhere(session, LAMBDA e : e.provenance \in AlgorithmicProvenances)
        int == CountWhere(session, LAMBDA e : e.provenance \in IntentionalProvenances)
    IN  alg > int

IsAlgorithmic(e, session) ==
    IF e.provenance \in AlgorithmicProvenances THEN TRUE
    ELSE IF e.provenance \in IntentionalProvenances THEN FALSE
    ELSE SessionMajority(session)

ClassifySession(session) ==
    [i \in 1..Len(session) |->
        [event |-> session[i], algorithmic |-> IsAlgorithmic(session[i], session)]]

ClassifyViews(sess) == [s \in 1..Len(sess) |-> ClassifySession(sess[s])]

\* n / d, with the division by zero guarded
Ratio(n, d) == IF d = 0 THEN [num |-> 0, den |-> 1] ELSE [num |-> n, den |-> d]

AlgorithmicViewShare(cls) ==
    LET flat == Flatten(cls)
    IN  Ratio(CountWhere(flat, LAMBDA c : c.algorithmic), Len(flat))

IntentionalViewShare(cls) ==
    LET flat == Flatten(cls)
    IN  Ratio(CountWhere(flat, LAMBDA c : ~c.algorithmic), Len(flat))

-----------------------------------------------------------------------------
(* 4.4 Streak Detector *)

MinStreakVideos == 2

ShortSeconds(e) ==
    IF e.duration_seconds = Unknown THEN DefaultShortSeconds ELSE e.duration_seconds

MakeStreak(run) ==
    [start_time       |-> run[1].watched_at,
     end_time         |-> EffectiveEnd(run[Len(run)]),
     video_count      |-> Len(run),
     duration_minutes |-> [num |-> SumSeq([i \in 1..Len(run) |-> ShortSeconds(run[i])]),
                           den |-> 60],
     events           |-> run]

\* a run of shorts is closed into a streak only when it is long enough
CloseStreak(run, out) ==
    IF Len(run) >= MinStreakVideos THEN Append(out, MakeStreak(run)) ELSE out

RECURSIVE ScanStreaksNoFinalClose(_, _, _)
ScanStreaksNoFinalClose(rest, run, out) ==
    IF rest = <<>> THEN out
    ELSE IF rest[1].is_short
         THEN ScanStreaksNoFinalClose(Tail(rest), Append(run, rest[1]), out)
         ELSE ScanStreaksNoFinalClose(Tail(rest), <<>>, CloseStreak(run, out))

RECURSIVE ScanStreaks(_, _, _)
\* rest: events of the session still to scan; run: the open run of shorts
ScanStreaks(rest, run, out) ==
    IF rest = <<>> THEN CloseStreak(run, out)
    ELSE IF rest[1].is_short
         THEN ScanStreaks(Tail(rest), Append(run, rest[1]), out)
         ELSE ScanStreaks(Tail(rest), <<>>, CloseStreak(run, out))

SessionStreaks(session) == ScanStreaks(session, <<>>, <<>>)

DetectStreaksAcrossSessions(sess) == SessionStreaks(Flatten(sess))

DetectStreaks(sess) == Flatten([s \in 1..Len(sess) |-> SessionStreaks(sess[s])])

-----------------------------------------------------------------------------
(* 4.5 Repeat-View Aggregator *)

MinRepeatCount == 2

RECURSIVE DistinctIds(_, _)
\* the video ids of evts in order of first appearance
DistinctIds(evts, seen) ==
    IF evts = <<>> THEN <<>>
    ELSE IF evts[1].video_id \in seen THEN DistinctIds(Tail(evts), seen)
         ELSE <<evts[1].video_id>> \o DistinctIds(Tail(evts), seen \cup {evts[1].video_id})

RECURSIVE MaxWatchedAt(_)
MaxWatchedAt(evts) ==
    IF Len(evts) = 1 THEN evts[1].watched_at
    ELSE Max(evts[1].watched_at, MaxWatchedAt(Tail(evts)))

GroupOf(evts, v) == SelectSeq(evts, LAMBDA e : e.video_id = v)

MakeRepeatView(evts, v) ==
    LET group == GroupOf(evts, v)
    IN  [video_id        |-> v,
         watch_count     |-> Len(group),
         last_watched_at |-> MaxWatchedAt(group)]

\* a comes before b in the output
RepeatBefore(a, b) ==
    \/ a.watch_count > b.watch_count
    \/ a.watch_count = b.watch_count /\ a.last_watched_at > b.last_watched_at

RECURSIVE SortRepeatViews(_)
SortRepeatViews(s) ==
    IF s = <<>> THEN <<>>
    ELSE LET head == SortRepeatViews(SubSeq(s, 1, Len(s) - 1))
             e == s[Len(s)]
             k == Cardinality({i \in 1..Len(head) : ~RepeatBefore(e, head[i])})
         IN  SubSeq(head, 1, k) \o <<e>> \o SubSeq(head, k + 1, Len(head))

Qualifies(rv) == rv.watch_count >= MinRepeatCount

AggregateRepeatViews(evts) ==
    LET ids == DistinctIds(evts, {})
        all == [i \in 1..Len(ids) |-> MakeRepeatView(evts, ids[i])]
    IN  SortRepeatViews(SelectSeq(all, Qualifies))

-----------------------------------------------------------------------------
(* 4.6 Temporal Aggregator *)

Weekdays == 0..6
Hours == 0..23

\* Monday is weekday 0; the epoch began on a Thursday
Weekday(t) == ((t \div 86400) + 3) % 7
Hour(t) == (t \div 3600) % 24

ZeroHeatmap == [d \in Weekdays |-> [h \in Hours |-> 0]]

RECURSIVE CountInto(_, _)
CountInto(hm, evts) ==
    IF evts = <<>> THEN hm
    ELSE LET d == Weekday(evts[1].watched_at)
             h == Hour(evts[1].watched_at)
         IN  CountInto([hm EXCEPT ![d][h] = @ + 1], Tail(evts))

BuildHeatmap(evts) == CountInto(ZeroHeatmap, evts)

-----------------------------------------------------------------------------
(* 4.7 Snapshot Assembler *)

UniqueVideos(evts) == Cardinality({evts[i].video_id : i \in 1..Len(evts)})

WatchedSeconds(e) == IF e.duration_seconds = Unknown THEN 0 ELSE e.duration_seconds

\* weeks begin on Monday
IsoWeek(t) == ((t \div 86400) + 3) \div 7

\* total watched minutes by the number of distinct weeks with an event
WeeklyMinutes(evts) ==
    Ratio(SumSeq([i \in 1..Len(evts) |-> WatchedSeconds(evts[i])]),
          60 * Cardinality({IsoWeek(evts[i].watched_at) : i \in 1..Len(evts)}))

AssembleSnapshot(evts, sess, cls, strk, rep, hm) ==
    [total_events               |-> Len(evts),
     unique_videos              |-> UniqueVideos(evts),
     average_videos_per_session |-> Ratio(Len(evts), Len(sess)),
     average_shorts_streak_minutes |->
         Ratio(SumSeq([i \in 1..Len(strk) |-> strk[i].duration_minutes.num]),
               60 * Len(strk)),
     algorithmic_view_share     |-> AlgorithmicViewShare(cls),
     intentional_view_share     |-> IntentionalViewShare(cls),
     repeat_views               |-> rep,
     heatmap                    |-> hm,
     weekly_minutes             |-> WeeklyMinutes(evts)]

-----------------------------------------------------------------------------
(* Dashboard components: pure functions of the analytics they are given *)

\* a.field ?? default
Field(a, field, default) == IF field \in DOMAIN a THEN a[field] ELSE default

RatZero == [num |-> 0, den |-> 1]
RatMul(a, b) == [num |-> a.num * b.num, den |-> a.den * b.den]

\* (mutant) the intentional share is read under a name the snapshot lacks
HighlightsMisnamed(analytics) ==
    IF analytics = Null THEN [view |-> "placeholder"]
    ELSE LET weeklyMinutes == Field(analytics, "weekly_minutes", RatZero)
             algorithmicShare == Field(analytics, "algorithmic_view_share", RatZero)
             intentionalShare == Field(analytics, "intentional_share", RatZero)
         IN  [view               |-> "cards",
              algorithmicMinutes |-> Field(analytics, "algorithmic_minutes",
                                           RatMul(weeklyMinutes, algorithmicShare)),
              intentionalMinutes |-> Field(analytics, "intentional_minutes",
                                           RatMul(weeklyMinutes, intentionalShare)),
              algorithmicShare   |-> algorithmicShare,
              intentionalShare   |-> intentionalShare]

\* WatchHistoryHighlights: the algorithmic-influence card
Highlights(analytics) ==
    IF analytics = Null THEN [view |-> "placeholder"]
    ELSE LET weeklyMinutes == Field(analytics, "weekly_minutes", RatZero)
             algorithmicShare == Field(analytics, "algorithmic_view_share", RatZero)
             intentionalShare == Field(analytics, "intentional_view_share", RatZero)
         IN  [view               |-> "cards",
              algorithmicMinutes |-> Field(analytics, "algorithmic_minutes",
                                           RatMul(weeklyMinutes, algorithmicShare)),
              intentionalMinutes |-> Field(analytics, "intentional_minutes",
                                           RatMul(weeklyMinutes, intentionalShare)),
              algorithmicShare   |-> algorithmicShare,
              intentionalShare   |-> intentionalShare]

TopRepeatWatches == 10

RECURSIVE SortByTimesWatchedUnstable(_)
\* (mutant) a sort that puts a later item in front of earlier ones of the
\* same count
SortByTimesWatchedUnstable(s) ==
    IF s = <<>> THEN <<>>
    ELSE LET head == SortByTimesWatchedUnstable(SubSeq(s, 1, Len(s) - 1))
             e == s[Len(s)]
             k == Cardinality({i \in 1..Len(head) : head[i].timesWatched > e.timesWatched})
         IN  SubSeq(head, 1, k) \o <<e>> \o SubSeq(head, k + 1, Len(head))

RECURSIVE SortByTimesWatched(_)
\* Array.prototype.sort with (a, b) => b.timesWatched - a.timesWatched: stable
SortByTimesWatched(s) ==
    IF s = <<>> THEN <<>>
    ELSE LET head == SortByTimesWatched(SubSeq(s, 1, Len(s) - 1))
             e == s[Len(s)]
             k == Cardinality({i \in 1..Len(head) : head[i].timesWatched >= e.timesWatched})
         IN  SubSeq(head, 1, k) \o <<e>> \o SubSeq(head, k + 1, Len(head))

RepeatWatchItem(item, now) ==
    [title        |-> Field(item, "title", "Unknown Video"),
     channel      |-> Field(item, "channel_title", "Unknown Channel"),
     timesWatched |-> Field(item, "watch_count", 0),
     lastWatched  |-> Field(item, "last_watched_at", Field(item, "last_watched", now)),
     videoId      |-> Field(item, "video_id", "untitled")]

\* (mutant) the list is mapped, sorted and cut, but not filtered
RepeatWatchListUnfiltered(analytics, now) ==
    IF analytics = Null \/ "repeat_views" \notin DOMAIN analytics THEN <<>>
    ELSE LET items == analytics.repeat_views
             mapped == [i \in 1..Len(items) |-> RepeatWatchItem(items[i], now)]
             sorted == SortByTimesWatched(mapped)
         IN  SubSeq(sorted, 1, Min(Len(sorted), TopRepeatWatches))

\* RepeatWatchList: the memoised list of repeat watches
RepeatWatchList(analytics, now) ==
    IF analytics = Null \/ "repeat_views" \notin DOMAIN analytics THEN <<>>
    ELSE LET items == analytics.repeat_views
             mapped == [i \in 1..Len(items) |-> RepeatWatchItem(items[i], now)]
             kept == SelectSeq(mapped, LAMBDA w : w.timesWatched > 1)
             sorted == SortByTimesWatched(kept)
         IN  SubSeq(sorted, 1, Min(Len(sorted), TopRepeatWatches))

\* ViewingHeatmap: the cells read from analytics.heatmap
HeatmapCells(analytics) ==
    IF analytics = Null \/ "heatmap" \notin DOMAIN analytics THEN <<>>
    ELSE analytics.heatmap

CellCount(cells, weekday, hour) ==
    IF weekday \in DOMAIN cells /\ hour \in DOMAIN cells[weekday]
    THEN cells[weekday][hour] ELSE 0

\* ViewingHeatmap: one cell per day label and hour, 0 where no count is held
ViewingHeatmap(analytics) ==
    IF analytics = Null THEN [view |-> "none"]
    ELSE IF "heatmap" \notin DOMAIN analytics \/ DOMAIN analytics.heatmap = {}
         THEN [view |-> "placeholder"]
         ELSE [view |-> "grid",
               grid |-> [d \in 0..6 |-> [h \in 0..23 |->
                            CellCount(HeatmapCells(analytics), d, h)]]]

NothingShown ==
    [analytics |-> Null, highlights |-> Highlights(Null),
     repeatWatches |-> <<>>, heatmap |-> ViewingHeatmap(Null)]

RenderInstants == {20000}

\* the components render the analytics a
Render(a) ==
    /\ shown.analytics # a
    /\ \E now \in RenderInstants :
        shown' = [analytics     |-> a,
                  highlights    |-> Highlights(a),
                  repeatWatches |-> RepeatWatchList(a, now),
                  heatmap       |-> ViewingHeatmap(a)]

\* the dashboard shows the stored snapshot
RenderSnapshot ==
    /\ pc = "idle"
    /\ snapshot # NoSnapshot
    /\ Render(snapshot)
    /\ UNCHANGED <<engineVars, firestoreVars, storeVars, restVars>>

-----------------------------------------------------------------------------
(* Firestore helper getWatchTimeHeatmap *)

\* Date.getDay(): Sunday is 0; the epoch began on a Thursday
JsDay(t) == ((t \div 86400) + 4) % 7
JsHours(t) == (t \div 3600) % 24

WatchSessionDoc(u, v, t, d) ==
    [userId |-> u, videoId |-> v, startTime |-> t, duration |-> d]

RECURSIVE AddDurations(_, _)
AddDurations(heat, docs) ==
    IF docs = <<>> THEN heat
    ELSE LET day == JsDay(docs[1].startTime)
             hour == JsHours(docs[1].startTime)
         IN  AddDurations([heat EXCEPT ![day][hour] = @ + docs[1].duration], Tail(docs))

RECURSIVE SetDurations(_, _)
SetDurations(heat, docs) ==
    IF docs = <<>> THEN heat
    ELSE LET day == JsDay(docs[1].startTime)
             hour == JsHours(docs[1].startTime)
         IN  SetDurations([heat EXCEPT ![day][hour] = docs[1].duration], Tail(docs))

\* (mutant) each session overwrites its cell instead of adding to it
GetWatchTimeHeatmapOverwriting(docs, userId) ==
    LET mine == SelectSeq(docs, LAMBDA d : d.userId = userId)
        heat == SetDurations([day \in 0..6 |-> [hour \in 0..23 |-> 0]], mine)
    IN  [k \in 1..(7 * 24) |->
            [day   |-> (k - 1) \div 24,
             hour  |-> (k - 1) % 24,
             value |-> [num |-> heat[(k - 1) \div 24][(k - 1) % 24], den |-> 60]]]

\* the sessions of the user, a zero-filled 7 x 24 table, the durations
\* added per (day, hour) of the start, the table as a list in minutes
GetWatchTimeHeatmap(docs, userId) ==
    LET mine == SelectSeq(docs, LAMBDA d : d.userId = userId)
        heat == AddDurations([day \in 0..6 |-> [hour \in 0..23 |-> 0]], mine)
    IN  [k \in 1..(7 * 24) |->
            [day   |-> (k - 1) \div 24,
             hour  |-> (k - 1) % 24,
             value |-> [num |-> heat[(k - 1) \div 24][(k - 1) % 24], den |-> 60]]]

Users == {"u1", "u2"}

FetchWatchTimeHeatmap(userId) ==
    /\ watchTimeHeatmap.userId # userId
    /\ watchTimeHeatmap' = [userId |-> userId,
                            result |-> GetWatchTimeHeatmap(watchSessions, userId)]
    /\ UNCHANGED <<engineVars, shown, watchSessions, storeVars, restVars>>

FirestoreEmpty ==
    /\ watchSessions = <<>>
    /\ watchTimeHeatmap = [userId |-> "none", result |-> <<>>]

-----------------------------------------------------------------------------
(* Import of a watch history: processWatchHistory and recordWatchSession.  *)
(* A video of watchHistoryData is a record [id, videoLength, isShort]; id  *)
(* is NoVideoId and isShort is "absent" where the field is undefined.      *)

ShortVideoSeconds == 60
NotANumber == 0 - 3
ImportUser == "u1"
ImportStart == 86400000

\* videoData.isShort || videoData.duration <= 60
IsShortVideo(videoData) ==
    videoData.isShort = "true" \/ videoData.duration <= ShortVideoSeconds

\* Math.min(Math.round((watchDuration / videoData.duration) * 100), 100)
WatchPercentage(watchDuration, duration) ==
    IF duration = 0 THEN NotANumber
    ELSE Min((200 * watchDuration + duration) \div (2 * duration), 100)

\* the videoData processWatchHistory extracts from a video
VideoData(video) ==
    [id |-> video.id, duration |-> video.videoLength, isShort |-> video.isShort]

\* the WatchSession document of recordWatchSession
RecordedSession(userId, videoData, watchDuration, nowMs) ==
    [id                |-> <<userId, videoData.id, nowMs>>,
     userId            |-> userId,
     videoId           |-> videoData.id,
     startTime         |-> (nowMs - watchDuration * 1000) \div 1000,
     endTime           |-> nowMs \div 1000,
     duration          |-> watchDuration,
     watchedPercentage |-> WatchPercentage(watchDuration, videoData.duration),
     isShort           |-> IsShortVideo(videoData)]

\* the VideoStats document of recordWatchSession
RecordedStats(userId, videoData, watchDuration, nowMs) ==
    [id                     |-> <<userId, videoData.id>>,
     userId                 |-> userId,
     videoLength            |-> videoData.duration,
     watchCount             |-> 1,
     totalWatchTime         |-> watchDuration,
     watchThroughPercentage |-> WatchPercentage(watchDuration, videoData.duration),
     isShort                |-> IsShortVideo(videoData),
     lastWatched            |-> nowMs \div 1000]

\* setDoc: the document of that id is replaced, or the document is added
SetDoc(docs, d) ==
    IF \E i \in 1..Len(docs) : "id" \in DOMAIN docs[i] /\ docs[i].id = d.id
    THEN [i \in 1..Len(docs) |->
             IF "id" \in DOMAIN docs[i] /\ docs[i].id = d.id THEN d ELSE docs[i]]
    ELSE Append(docs, d)

ImportIdle ==
    /\ importData = <<>>
    /\ importPos = 1
    /\ importPhase = "done"
    /\ importNow = ImportStart
    /\ videoStats = <<>>

VideoAtHand == VideoData(importData[importPos])

\* A document with an undefined field is written or rejected, as Firestore
\* is set up (ignoreUndefinedProperties); a well-formed one is written.
Rejectable(videoData) == videoData.id = NoVideoId

\* recordWatchSession up to the answer of storeVideoStats: the write is
\* done, or it is rejected and the error is thrown on through
\* processWatchHistory
ImportStoreStats ==
    /\ importPhase = "stats"
    /\ \/ /\ videoStats' = SetDoc(videoStats,
                               RecordedStats(ImportUser, VideoAtHand,
                                             VideoAtHand.duration, importNow))
          /\ importPhase' = "session"
       \/ /\ Rejectable(VideoAtHand)
          /\ importPhase' = "thrown"
          /\ UNCHANGED videoStats
    /\ UNCHANGED <<engineVars, shown, firestoreVars, storeVars, dataVars,
                   importData, importPos, importNow>>

\* recordWatchSession from there to the answer of storeWatchSession, and
\* processWatchHistory on to the next video, which takes its Timestamp.now()
ImportStoreSession ==
    /\ importPhase = "session"
    /\ \/ /\ watchSessions' = SetDoc(watchSessions,
                                  RecordedSession(ImportUser, VideoAtHand,
                                                  VideoAtHand.duration, importNow))
          /\ importPos' = importPos + 1
          /\ importPhase' = IF importPos = Len(importData) THEN "done" ELSE "stats"
          /\ \E elapsed \in {0, 1} : importNow' = importNow + elapsed
       \/ /\ Rejectable(VideoAtHand)
          /\ importPhase' = "thrown"
          /\ UNCHANGED <<watchSessions, importPos, importNow>>
    /\ UNCHANGED <<engineVars, shown, watchTimeHeatmap, storeVars, dataVars,
                   importData, videoStats>>

-----------------------------------------------------------------------------
(* The run: 4.1 - 4.7 on the batch at hand.  A run with no valid event     *)
(* ends as EmptyHistory and stores nothing; any other run replaces the     *)
(* stored snapshot by the one it assembled.                                *)

\* (mutant) the new snapshot is added to the stored one
StoreSnapshotMerged(prev, snap) ==
    IF prev = NoSnapshot THEN snap
    ELSE [snap EXCEPT !.total_events = @ + prev.total_events,
                      !.repeat_views = prev.repeat_views \o @]

\* the stored snapshot is superseded wholesale
StoreSnapshot(prev, snap) == snap

RunBatch(batch) ==
    /\ LET evts == Normalize(batch)
           sess == ReconstructSessions(evts)
           cls  == ClassifyViews(sess)
           strk == DetectStreaks(sess)
           rep  == AggregateRepeatViews(evts)
           hm   == BuildHeatmap(evts)
           snap == AssembleSnapshot(evts, sess, cls, strk, rep, hm)
       IN  /\ events' = evts
           /\ dropped' = Len(batch) - Len(evts)
           /\ sessions' = sess
           /\ classified' = cls
           /\ streaks' = strk
           /\ repeat_views' = rep
           /\ heatmap' = hm
           /\ assembled' = snap
           /\ reassembled' = NoSnapshot
           /\ IF evts = <<>>
              THEN /\ runResult' = "EmptyHistory"
                   /\ UNCHANGED <<snapshot, engineState>>
              ELSE /\ runResult' = "ok"
                   /\ snapshot' = StoreSnapshot(snapshot, snap)
                   /\ engineState' = "snapshot_ready"
    /\ history' = batch
    /\ pc' = "idle"

Run ==
    /\ pc = "ready"
    /\ RunBatch(history)
    /\ UNCHANGED <<shown, firestoreVars, storeVars, restVars>>

\* a history is handed to the engine; the results of the previous run that
\* are local to its stages are gone, the stored snapshot stays
Submit(batch) ==
    /\ pc = "idle"
    /\ history' = batch
    /\ pc' = "ready"
    /\ events' = <<>>
    /\ dropped' = 0
    /\ sessions' = <<>>
    /\ classified' = <<>>
    /\ streaks' = <<>>
    /\ repeat_views' = <<>>
    /\ heatmap' = ZeroHeatmap
    /\ assembled' = NoSnapshot
    /\ reassembled' = NoSnapshot
    /\ runResult' = "none"
    /\ UNCHANGED <<snapshot, engineState, shown, firestoreVars, storeVars, restVars>>

\* (mutant) an assembler that keeps its totals from one assembly to the next
AssembleAgainAccumulating(prior, evts, sess, cls, strk, rep, hm) ==
    LET again == AssembleSnapshot(evts, sess, cls, strk, rep, hm)
    IN  [again EXCEPT !.total_events = @ + prior.total_events,
                      !.repeat_views = prior.repeat_views \o @]

\* a further assembly: nothing of an earlier assembly enters
AssembleAgain(prior, evts, sess, cls, strk, rep, hm) ==
    AssembleSnapshot(evts, sess, cls, strk, rep, hm)

\* the assembler is run once more on the stage outputs of the run
Reassemble ==
    /\ pc = "idle"
    /\ runResult # "none"
    /\ reassembled = NoSnapshot
    /\ reassembled' = AssembleAgain(assembled, events, sessions, classified, streaks,
                                    repeat_views, heatmap)
    /\ UNCHANGED <<history, pc, events, dropped, sessions, classified, streaks,
                   repeat_views, heatmap, assembled, snapshot, engineState,
                   runResult, shown, firestoreVars, storeVars, restVars>>

-----------------------------------------------------------------------------
(* Watch-history store of the frontend, and the backend it calls.          *)
(* An async function runs without interruption up to its next await; each  *)
(* action below is one such stretch.                                       *)

NoError == "null"           \* error: null
NoMessage == "null"         \* uploadMessage: null
NoTime == 0 - 1             \* lastUpdatedAt / lastAnalyticsAttemptAt: null
AnalyticsThrottleMs == 5000

StoreInitial ==
    [status                 |-> Null,
     analytics              |-> Null,
     isLoadingStatus        |-> FALSE,
     isLoadingAnalytics     |-> FALSE,
     isUploading            |-> FALSE,
     error                  |-> NoError,
     uploadMessage          |-> NoMessage,
     lastUpdatedAt          |-> NoTime,
     lastAnalyticsAttemptAt |-> NoTime]

\* set(patch): the fields of the patch replace those of the state
Merge(s, patch) ==
    [f \in DOMAIN s |-> IF f \in DOMAIN patch THEN patch[f] ELSE s[f]]

Response(kind, data) == [kind |-> kind, data |-> data]

\* what get_watch_history_status may answer
StatusResponses ==
    {Response("error", Null)}
    \cup (IF snapshot = NoSnapshot
          THEN {Response("404", Null),
                Response("ok", [total_events |-> 0, processing_state |-> "idle"])}
          ELSE {Response("ok", [total_events |-> snapshot.total_events,
                                processing_state |-> ps]) :
                    ps \in {"completed", "processing"}})

\* what get_watch_history_analytics may answer
AnalyticsResponses ==
    {Response("error", Null)}
    \cup (IF snapshot = NoSnapshot
          THEN {Response("404", Null)}
          ELSE {Response("ok", snapshot)})

HasEvents(s) == Field(s.status, "total_events", 0) > 0
IsReady(s) == Field(s.status, "processing_state", "none") = "completed"

\* loadStatus up to its await
LoadStatusBegin(s) == Merge(s, [isLoadingStatus |-> TRUE, error |-> NoError])

\* loadStatus from the response on
LoadStatusEnd(s, resp) ==
    IF resp.kind = "ok"
    THEN Merge(s, [status |-> resp.data, isLoadingStatus |-> FALSE])
    ELSE IF resp.kind = "404"
         THEN Merge(s, [status |-> Null, isLoadingStatus |-> FALSE])
         ELSE Merge(s, [error |-> "status_failed", isLoadingStatus |-> FALSE])

\* (mutant) loadAnalytics asking whatever the status is
LoadAnalyticsBeginUnguarded(s, t) ==
    LET s1 == Merge(s, [isLoadingAnalytics |-> TRUE, error |-> NoError])
        last == s1.lastAnalyticsAttemptAt
    IN  IF last # NoTime /\ last # 0 /\ t - last < AnalyticsThrottleMs
        THEN [store |-> Merge(s1, [isLoadingAnalytics |-> FALSE]), requested |-> FALSE]
        ELSE [store |-> Merge(s1, [lastAnalyticsAttemptAt |-> t]), requested |-> TRUE]

\* (mutant) loadAnalytics asking however recent the last attempt is
LoadAnalyticsBeginUnthrottled(s, t) ==
    LET s1 == Merge(s, [isLoadingAnalytics |-> TRUE, error |-> NoError])
    IN  IF ~HasEvents(s1) \/ ~IsReady(s1)
        THEN [store |-> Merge(s1, [isLoadingAnalytics |-> FALSE]), requested |-> FALSE]
        ELSE [store |-> Merge(s1, [lastAnalyticsAttemptAt |-> t]), requested |-> TRUE]

\* loadAnalytics up to its await, or to its early return
LoadAnalyticsBegin(s, t) ==
    LET s1 == Merge(s, [isLoadingAnalytics |-> TRUE, error |-> NoError])
        last == s1.lastAnalyticsAttemptAt
    IN  IF ~HasEvents(s1) \/ ~IsReady(s1)
        THEN [store |-> Merge(s1, [isLoadingAnalytics |-> FALSE]), requested |-> FALSE]
        ELSE IF last # NoTime /\ last # 0 /\ t - last < AnalyticsThrottleMs
             THEN [store |-> Merge(s1, [isLoadingAnalytics |-> FALSE]),
                   requested |-> FALSE]
             ELSE [store |-> Merge(s1, [lastAnalyticsAttemptAt |-> t]),
                   requested |-> TRUE]

\* loadAnalytics from the response on
LoadAnalyticsEnd(s, resp, t) ==
    IF resp.kind = "ok"
    THEN Merge(s, [analytics |-> resp.data, isLoadingAnalytics |-> FALSE,
                   lastUpdatedAt |-> t])
    ELSE IF resp.kind = "404"
         THEN Merge(s, [analytics |-> Null, isLoadingAnalytics |-> FALSE])
         ELSE Merge(s, [error |-> "analytics_failed", isLoadingAnalytics |-> FALSE])

\* uploadTakeout up to its await
UploadBegin(s) ==
    Merge(s, [isUploading |-> TRUE, uploadMessage |-> NoMessage, error |-> NoError])

\* (mutant) a failed upload also throws the loaded analytics away
UploadFailedClearing(s) ==
    Merge(Merge(s, [error |-> "upload_failed", analytics |-> Null, status |-> Null]),
          [isUploading |-> FALSE])

\* (mutant) uploadTakeout: catch, without the finally
UploadFailedStillUploading(s) == Merge(s, [error |-> "upload_failed"])

\* uploadTakeout: catch, then finally
UploadFailed(s) ==
    Merge(Merge(s, [error |-> "upload_failed"]), [isUploading |-> FALSE])

\* uploadTakeout: finally, after refresh
UploadFinished(s) == Merge(s, [isUploading |-> FALSE])

\* deleteHistory up to its await
DeleteBegin(s) == Merge(s, [error |-> NoError, uploadMessage |-> NoMessage])

\* deleteHistory: the answer says success
DeleteSucceeded(s) ==
    Merge(s, [analytics |-> Null, status |-> Null, uploadMessage |-> "deleted",
              lastUpdatedAt |-> NoTime])

\* (mutant) a failed deletion drops the analytics and keeps the status
DeleteFailedHalfway(s) == Merge(s, [error |-> "delete_failed", analytics |-> Null])

\* deleteHistory: catch
DeleteFailed(s) == Merge(s, [error |-> "delete_failed"])

\* upload card: the drop zone is rendered
DropZoneShown(s) == ~s.isUploading

\* upload card: the delete button is rendered
DeleteButtonShown(s) == HasEvents(s) /\ ~s.isUploading

ProcIdle == [pc |-> "idle", batch |-> <<>>, success |-> FALSE]

\* no step of a refresh has failed
NothingFailed == [loadStatus |-> FALSE, loadAnalytics |-> FALSE]

StoreIdle ==
    /\ store = StoreInitial
    /\ uploadProc = ProcIdle
    /\ statusProc = "idle"
    /\ analyticsProc = "idle"
    /\ deleteProc = ProcIdle
    /\ clock = AnalyticsThrottleMs \div 5
    /\ refreshLog = NothingFailed

\* the upload card hands a file to uploadTakeout (the drop zone is shown
\* only while no upload is in progress)
UploadStart(batch) ==
    /\ DropZoneShown(store)
    /\ store' = UploadBegin(store)
    /\ uploadProc' = [pc |-> "sent", batch |-> batch, success |-> FALSE]
    /\ UNCHANGED <<engineVars, shown, firestoreVars, statusProc, analyticsProc,
                   deleteProc, clock, restVars, refreshLog>>

\* the backend runs the engine on the uploaded history
ServerUpload ==
    /\ uploadProc.pc = "sent"
    /\ pc = "idle"
    /\ RunBatch(uploadProc.batch)
    /\ uploadProc' = [pc |-> "responded", batch |-> <<>>,
                      success |-> (runResult' = "ok")]
    /\ UNCHANGED <<shown, firestoreVars, store, statusProc, analyticsProc,
                   deleteProc, clock, restVars, refreshLog>>

\* the request fails, or the answer says success: false
UploadFail ==
    /\ \/ uploadProc.pc = "sent"
       \/ uploadProc.pc = "responded"
    /\ store' = UploadFailed(store)
    /\ uploadProc' = ProcIdle
    /\ UNCHANGED <<engineVars, shown, firestoreVars, statusProc, analyticsProc,
                   deleteProc, clock, restVars, refreshLog>>

\* the answer says success: the message is kept, refresh starts loadStatus
UploadOk ==
    /\ uploadProc.pc = "responded"
    /\ uploadProc.success
    /\ store' = LoadStatusBegin(Merge(store, [uploadMessage |-> "uploaded"]))
    /\ uploadProc' = [uploadProc EXCEPT !.pc = "refresh_status"]
    /\ refreshLog' = NothingFailed
    /\ UNCHANGED <<engineVars, shown, firestoreVars, statusProc, analyticsProc,
                   deleteProc, clock, restVars>>

\* refresh: loadStatus ends with the answer resp, loadAnalytics starts
RefreshStatusStep(resp) ==
    LET began == LoadAnalyticsBegin(LoadStatusEnd(store, resp), clock)
    IN  IF began.requested
        THEN /\ store' = began.store
             /\ uploadProc' = [uploadProc EXCEPT !.pc = "refresh_analytics"]
        ELSE /\ store' = UploadFinished(began.store)
             /\ uploadProc' = ProcIdle

\* refresh: loadAnalytics ends with the answer resp, and with it uploadTakeout
RefreshAnalyticsStep(resp) ==
    /\ store' = UploadFinished(LoadAnalyticsEnd(store, resp, clock))
    /\ uploadProc' = ProcIdle

RefreshStatusDone ==
    /\ uploadProc.pc = "refresh_status"
    /\ \E resp \in StatusResponses : RefreshStatusStep(resp)
    /\ UNCHANGED <<engineVars, shown, firestoreVars, statusProc, analyticsProc,
                   deleteProc, clock, refreshLog, restVars>>

RefreshAnalyticsDone ==
    /\ uploadProc.pc = "refresh_analytics"
    /\ \E resp \in AnalyticsResponses : RefreshAnalyticsStep(resp)
    /\ UNCHANGED <<engineVars, shown, firestoreVars, statusProc, analyticsProc,
                   deleteProc, clock, refreshLog, restVars>>

\* the same two steps, with a note of whether the answer was a failure
RefreshStatusLogged ==
    /\ uploadProc.pc = "refresh_status"
    /\ \E resp \in StatusResponses :
           /\ RefreshStatusStep(resp)
           /\ refreshLog' = [refreshLog EXCEPT !.loadStatus = (resp.kind = "error")]
    /\ UNCHANGED <<engineVars, shown, firestoreVars, statusProc, analyticsProc,
                   deleteProc, clock, restVars>>

RefreshAnalyticsLogged ==
    /\ uploadProc.pc = "refresh_analytics"
    /\ \E resp \in AnalyticsResponses :
           /\ RefreshAnalyticsStep(resp)
           /\ refreshLog' = [refreshLog EXCEPT !.loadAnalytics = (resp.kind = "error")]
    /\ UNCHANGED <<engineVars, shown, firestoreVars, statusProc, analyticsProc,
                   deleteProc, clock, restVars>>

\* Dashboard effect: status is missing
DashLoadStatus ==
    /\ statusProc = "idle"
    /\ store.status = Null
    /\ store' = LoadStatusBegin(store)
    /\ statusProc' = "waiting"
    /\ UNCHANGED <<engineVars, shown, firestoreVars, uploadProc, analyticsProc,
                   deleteProc, clock, restVars, refreshLog>>

DashStatusDone ==
    /\ statusProc = "waiting"
    /\ \E resp \in StatusResponses : store' = LoadStatusEnd(store, resp)
    /\ statusProc' = "idle"
    /\ UNCHANGED <<engineVars, shown, firestoreVars, uploadProc, analyticsProc,
                   deleteProc, clock, restVars, refreshLog>>

\* Dashboard effect: events exist, processing is completed, no analytics yet
DashLoadAnalytics ==
    /\ analyticsProc = "idle"
    /\ HasEvents(store) /\ IsReady(store) /\ store.analytics = Null
    /\ LET began == LoadAnalyticsBegin(store, clock)
       IN  /\ store' = began.store
           /\ analyticsProc' = IF began.requested THEN "waiting" ELSE "idle"
    /\ UNCHANGED <<engineVars, shown, firestoreVars, uploadProc, statusProc,
                   deleteProc, clock, restVars, refreshLog>>

DashAnalyticsDone ==
    /\ analyticsProc = "waiting"
    /\ \E resp \in AnalyticsResponses : store' = LoadAnalyticsEnd(store, resp, clock)
    /\ analyticsProc' = "idle"
    /\ UNCHANGED <<engineVars, shown, firestoreVars, uploadProc, statusProc,
                   deleteProc, clock, restVars, refreshLog>>

\* the upload card asks for deletion (the button is shown when there is
\* data and no upload is in progress)
DeleteStart ==
    /\ deleteProc.pc = "idle"
    /\ DeleteButtonShown(store)
    /\ store' = DeleteBegin(store)
    /\ deleteProc' = [deleteProc EXCEPT !.pc = "sent"]
    /\ UNCHANGED <<engineVars, shown, firestoreVars, uploadProc, statusProc,
                   analyticsProc, clock, restVars, refreshLog>>

\* the backend deletes what it holds for the user
ServerDelete ==
    /\ deleteProc.pc = "sent"
    /\ snapshot' = NoSnapshot
    /\ engineState' = "no_snapshot"
    /\ deleteProc' = [deleteProc EXCEPT !.pc = "responded", !.success = TRUE]
    /\ UNCHANGED <<history, pc, events, dropped, sessions, classified, streaks,
                   repeat_views, heatmap, assembled, reassembled, runResult, shown,
                   firestoreVars, store, uploadProc, statusProc, analyticsProc, clock, restVars, refreshLog>>

DeleteDone ==
    /\ deleteProc.pc = "responded"
    /\ deleteProc.success
    /\ store' = DeleteSucceeded(store)
    /\ deleteProc' = ProcIdle
    /\ UNCHANGED <<engineVars, shown, firestoreVars, uploadProc, statusProc,
                   analyticsProc, clock, restVars, refreshLog>>

DeleteFail ==
    /\ deleteProc.pc \in {"sent", "responded"}
    /\ store' = DeleteFailed(store)
    /\ deleteProc' = ProcIdle
    /\ UNCHANGED <<engineVars, shown, firestoreVars, uploadProc, statusProc,
                   analyticsProc, clock, restVars, refreshLog>>

ClockStart == AnalyticsThrottleMs \div 5
TickMs == AnalyticsThrottleMs \div 2
MaxTicks == 2

Tick ==
    /\ clock < ClockStart + MaxTicks * TickMs
    /\ clock' = clock + TickMs
    /\ UNCHANGED <<engineVars, shown, firestoreVars, store, uploadProc, statusProc,
                   analyticsProc, deleteProc, restVars,
                   refreshLog>>

-----------------------------------------------------------------------------
(* Liked-videos data store (useDataStore): the auth listener of            *)
(* initializeAuth with its two subscriptions, loadSyncStatus,              *)
(* loadAnalytics and refreshData.  As above, an action is the stretch of   *)
(* an async function between two awaits.                                   *)

NoUser == "null"            \* user: null
NoSample == 0               \* loadAnalytics called without a sample size
DefaultSampleSize == 100

DataStoreInitial ==
    [user                 |-> NoUser,
     userProfile          |-> Null,
     userPreferences      |-> Null,
     syncStatus           |-> Null,
     analytics            |-> Null,
     analyticsSampleSize  |-> DefaultSampleSize,
     isUserLoading        |-> TRUE,
     isProfileLoading     |-> FALSE,
     isPreferencesLoading |-> FALSE,
     isSyncStatusLoading  |-> FALSE,
     isAnalyticsLoading   |-> FALSE,
     userError            |-> NoError,
     profileError         |-> NoError,
     syncStatusError      |-> NoError,
     analyticsError       |-> NoError]

\* a request in flight: get_sync_status ("sync") or get_analytics
\* ("analytics"), and what awaits it: nothing, refreshData ("refresh"),
\* loadSyncStatus ("sync"), or loadSyncStatus inside refreshData
DataCall(kind, sampleSize, outer, requester) ==
    [kind |-> kind, sampleSize |-> sampleSize, outer |-> outer, requester |-> requester]

\* status?.sample_size ?? status?.sampleSize ?? status?.preferred_sample_size ?? 100
DesiredOfStatus(status) ==
    Field(status, "sample_size",
          Field(status, "sampleSize",
                Field(status, "preferred_sample_size", DefaultSampleSize)))

\* normalizeAnalyticsPayload: the analytics block spread to the top level,
\* the category breakdown built (none, for a payload without categories)
NormalizeAnalyticsPayload(payload) ==
    [owner             |-> payload.owner,
     sample_size       |-> payload.sample_size,
     analytics         |-> [category_breakdown |-> <<>>],
     categoryBreakdown |-> <<>>]

RECURSIVE StartAnalytics(_, _, _)
RECURSIVE AfterAnalytics(_, _)

\* loadAnalytics(sampleSize) up to its await or its early return, and what
\* follows an early return
StartAnalytics(s, sampleSize, outer) ==
    IF s.user = NoUser
    THEN AfterAnalytics(Merge(s, [analytics |-> Null, isAnalyticsLoading |-> FALSE,
                                  analyticsError |-> NoError]), outer)
    ELSE IF s.isAnalyticsLoading
         THEN AfterAnalytics(s, outer)
         ELSE LET desired == IF sampleSize # NoSample THEN sampleSize
                             ELSE Field(s.syncStatus, "sample_size",
                                    Field(s.syncStatus, "sampleSize",
                                      Field(s.syncStatus, "preferred_sample_size",
                                            s.analyticsSampleSize)))
              IN  IF s.analytics # Null /\ s.analyticsSampleSize = desired
                  THEN AfterAnalytics(s, outer)
                  ELSE [store |-> Merge(s, [isAnalyticsLoading |-> TRUE,
                                            analyticsError |-> NoError]),
                        calls |-> <<DataCall("analytics", desired, outer, s.user)>>]

\* what runs when loadAnalytics has returned to the one awaiting it
AfterAnalytics(s, outer) ==
    IF outer = "sync"
    THEN [store |-> Merge(s, [isSyncStatusLoading |-> FALSE]), calls |-> <<>>]
    ELSE IF outer = "sync-refresh"
         THEN StartAnalytics(Merge(s, [isSyncStatusLoading |-> FALSE]), NoSample, "none")
         ELSE [store |-> s, calls |-> <<>>]

\* what runs when loadSyncStatus has returned to the one awaiting it
AfterSync(s, outer) ==
    IF outer = "refresh" THEN StartAnalytics(s, NoSample, "none")
    ELSE [store |-> s, calls |-> <<>>]

\* loadSyncStatus up to its await or its early return
StartSync(s, outer) ==
    IF s.user = NoUser
    THEN AfterSync(Merge(s, [syncStatus |-> Null, isSyncStatusLoading |-> FALSE,
                             syncStatusError |-> NoError]), outer)
    ELSE IF s.isSyncStatusLoading
         THEN AfterSync(s, outer)
         ELSE [store |-> Merge(s, [isSyncStatusLoading |-> TRUE,
                                   syncStatusError |-> NoError]),
               calls |-> <<DataCall("sync", NoSample, outer, s.user)>>]

\* loadSyncStatus from the response on
EndSync(s, call, resp) ==
    IF resp.kind = "ok"
    THEN LET s1 == Merge(s, [syncStatus |-> resp.data])
             desired == DesiredOfStatus(resp.data)
         IN  IF s1.analytics = Null \/ s1.analyticsSampleSize # desired
             THEN StartAnalytics(s1, desired,
                                 IF call.outer = "refresh" THEN "sync-refresh" ELSE "sync")
             ELSE AfterSync(Merge(s1, [isSyncStatusLoading |-> FALSE]), call.outer)
    ELSE AfterSync(Merge(Merge(s, [syncStatusError |-> "sync_status_failed"]),
                         [isSyncStatusLoading |-> FALSE]), call.outer)

\* loadAnalytics from the response on
EndAnalytics(s, call, resp) ==
    IF resp.kind = "ok"
    THEN AfterAnalytics(Merge(Merge(s, [analytics |-> NormalizeAnalyticsPayload(resp.data),
                                        analyticsSampleSize |-> call.sampleSize]),
                              [isAnalyticsLoading |-> FALSE]), call.outer)
    ELSE AfterAnalytics(Merge(Merge(s, [analyticsError |-> "analytics_failed"]),
                              [isAnalyticsLoading |-> FALSE]), call.outer)

\* what get_sync_status may answer
SyncStatusResponses ==
    {Response("error", Null),
     Response("ok", [totalVideos |-> 5, analyticsAvailable |-> TRUE]),
     Response("ok", [totalVideos |-> 5, analyticsAvailable |-> TRUE, sample_size |-> 50])}

\* what get_analytics may answer to a request
LikedAnalyticsResponses(call) ==
    {Response("error", Null),
     Response("ok", [owner |-> call.requester, sample_size |-> call.sampleSize])}

RemoveAt(s, i) == SubSeq(s, 1, i - 1) \o SubSeq(s, i + 1, Len(s))

DataIdle ==
    /\ dataStore = DataStoreInitial
    /\ authUser = "pending"
    /\ authCount = 0
    /\ authCallbacks = {}
    /\ profileUnsubscriber = 0
    /\ preferencesUnsubscriber = 0
    /\ subscriptions = {}
    /\ dataCalls = <<>>

MaxAuthChanges == 3
MaxDataCalls == 2

\* onAuthStateChanged calls the listener with the new user: the listener up
\* to its await of createOrUpdateUser, or to its end on a sign-out
AuthChanged(u) ==
    /\ authCount < MaxAuthChanges
    /\ u # authUser
    /\ authUser' = u
    /\ authCount' = authCount + 1
    /\ subscriptions' =
           {sub \in subscriptions :
               ~ \/ sub.kind = "profile" /\ sub.n = profileUnsubscriber
                 \/ sub.kind = "preferences" /\ sub.n = preferencesUnsubscriber}
    /\ IF u # NoUser
       THEN /\ dataStore' = Merge(dataStore, [user |-> u, isUserLoading |-> FALSE])
            /\ authCallbacks' = authCallbacks \cup {[n |-> authCount + 1, user |-> u]}
       ELSE /\ dataStore' =
                Merge(Merge(dataStore, [user |-> u, isUserLoading |-> FALSE]),
                      [userProfile |-> Null, userPreferences |-> Null,
                       syncStatus |-> Null, analytics |-> Null,
                       isProfileLoading |-> FALSE, isPreferencesLoading |-> FALSE,
                       isSyncStatusLoading |-> FALSE, isAnalyticsLoading |-> FALSE])
            /\ UNCHANGED authCallbacks
    /\ UNCHANGED <<engineVars, shown, firestoreVars, storeVars, importVars,
                   profileUnsubscriber, preferencesUnsubscriber, dataCalls>>

\* createOrUpdateUser has resolved: the listener subscribes to the profile
\* and the preferences of its user and calls loadSyncStatus
UserCreated ==
    /\ \E cb \in authCallbacks :
           LET began == StartSync(dataStore, "none")
           IN  /\ Len(dataCalls) + Len(began.calls) <= MaxDataCalls
               /\ authCallbacks' = authCallbacks \ {cb}
               /\ subscriptions' = subscriptions
                      \cup {[kind |-> "profile", uid |-> cb.user, n |-> cb.n],
                            [kind |-> "preferences", uid |-> cb.user, n |-> cb.n]}
               /\ profileUnsubscriber' = cb.n
               /\ preferencesUnsubscriber' = cb.n
               /\ dataStore' = began.store
               /\ dataCalls' = dataCalls \o began.calls
    /\ UNCHANGED <<engineVars, shown, firestoreVars, storeVars, importVars,
                   authUser, authCount>>

\* createOrUpdateUser has rejected: the listener's catch
UserCreateFailed ==
    /\ \E cb \in authCallbacks : authCallbacks' = authCallbacks \ {cb}
    /\ dataStore' = Merge(dataStore, [profileError |-> "create_failed",
                                      isProfileLoading |-> FALSE,
                                      isPreferencesLoading |-> FALSE])
    /\ UNCHANGED <<engineVars, shown, firestoreVars, storeVars, importVars,
                   authUser, authCount, profileUnsubscriber,
                   preferencesUnsubscriber, subscriptions, dataCalls>>

\* get_sync_status has answered
SyncStatusAnswered ==
    /\ \E i \in 1..Len(dataCalls) :
           /\ dataCalls[i].kind = "sync"
           /\ \E resp \in SyncStatusResponses :
                  LET ended == EndSync(dataStore, dataCalls[i], resp)
                  IN  /\ dataStore' = ended.store
                      /\ dataCalls' = RemoveAt(dataCalls, i) \o ended.calls
    /\ UNCHANGED <<engineVars, shown, firestoreVars, storeVars, importVars,
                   authUser, authCount, authCallbacks, profileUnsubscriber,
                   preferencesUnsubscriber, subscriptions>>

\* get_analytics has answered
AnalyticsAnswered ==
    /\ \E i \in 1..Len(dataCalls) :
           /\ dataCalls[i].kind = "analytics"
           /\ \E resp \in LikedAnalyticsResponses(dataCalls[i]) :
                  LET ended == EndAnalytics(dataStore, dataCalls[i], resp)
                  IN  /\ dataStore' = ended.store
                      /\ dataCalls' = RemoveAt(dataCalls, i) \o ended.calls
    /\ UNCHANGED <<engineVars, shown, firestoreVars, storeVars, importVars,
                   authUser, authCount, authCallbacks, profileUnsubscriber,
                   preferencesUnsubscriber, subscriptions>>

\* a component calls loadAnalytics, with a sample size or without
CallLoadAnalytics ==
    /\ \E sampleSize \in {NoSample, DefaultSampleSize} :
           LET began == StartAnalytics(dataStore, sampleSize, "none")
           IN  /\ Len(dataCalls) + Len(began.calls) <= MaxDataCalls
               /\ dataStore' = began.store
               /\ dataCalls' = dataCalls \o began.calls
    /\ UNCHANGED <<engineVars, shown, firestoreVars, storeVars, importVars,
                   authUser, authCount, authCallbacks, profileUnsubscriber,
                   preferencesUnsubscriber, subscriptions>>

\* a component calls loadSyncStatus
CallLoadSyncStatus ==
    /\ LET began == StartSync(dataStore, "none")
       IN  /\ Len(dataCalls) + Len(began.calls) <= MaxDataCalls
           /\ dataStore' = began.store
           /\ dataCalls' = dataCalls \o began.calls
    /\ UNCHANGED <<engineVars, shown, firestoreVars, storeVars, importVars,
                   authUser, authCount, authCallbacks, profileUnsubscriber,
                   preferencesUnsubscriber, subscriptions>>

\* a component calls refreshData
CallRefreshData ==
    /\ LET began ==
               IF dataStore.user = NoUser
               THEN [store |-> Merge(dataStore,
                                     [syncStatus |-> Null, analytics |-> Null,
                                      isSyncStatusLoading |-> FALSE,
                                      isAnalyticsLoading |-> FALSE,
                                      syncStatusError |-> NoError,
                                      analyticsError |-> NoError]),
                     calls |-> <<>>]
               ELSE StartSync(dataStore, "refresh")
       IN  /\ Len(dataCalls) + Len(began.calls) <= MaxDataCalls
           /\ dataStore' = began.store
           /\ dataCalls' = dataCalls \o began.calls
    /\ UNCHANGED <<engineVars, shown, firestoreVars, storeVars, importVars,
                   authUser, authCount, authCallbacks, profileUnsubscriber,
                   preferencesUnsubscriber, subscriptions>>

NextData ==
    \/ \E u \in Users \cup {NoUser} : AuthChanged(u)
    \/ UserCreated
    \/ UserCreateFailed
    \/ SyncStatusAnswered
    \/ AnalyticsAnswered
    \/ CallLoadAnalytics
    \/ CallLoadSyncStatus
    \/ CallRefreshData

RestIdle == ImportIdle /\ DataIdle

-----------------------------------------------------------------------------
(* Inputs *)

RawRecord(v, t, d, f, p) ==
    [video_id |-> v, watched_at |-> t, duration_seconds |-> d,
     short_flag |-> f, provenance |-> p]

RECURSIVE SeqsUpTo(_, _)
SeqsUpTo(S, n) ==
    IF n = 0 THEN {<<>>}
    ELSE LET shorter == SeqsUpTo(S, n - 1)
         IN  shorter \cup {Append(s, x) : s \in {q \in shorter : Len(q) = n - 1}, x \in S}

EngineIdle(batch) ==
    /\ history = batch
    /\ pc = "ready"
    /\ events = <<>>
    /\ dropped = 0
    /\ sessions = <<>>
    /\ classified = <<>>
    /\ streaks = <<>>
    /\ repeat_views = <<>>
    /\ heatmap = ZeroHeatmap
    /\ assembled = NoSnapshot
    /\ reassembled = NoSnapshot
    /\ snapshot = NoSnapshot
    /\ engineState = "no_snapshot"
    /\ runResult = "none"
    /\ shown = NothingShown
    /\ StoreIdle
    /\ RestIdle

(* Session Reconstructor inputs: instants 5, 40 and 10 minutes apart, one  *)
(* far instant beyond the cap, durations absent, ordinary and above the cap *)
MaxSessionEvents == 4
SessionInstants == {0, 300, 2700, 3300, 12900}
SessionRecords ==
    {RawRecord("v1", t, Unknown, "absent", "unknown") : t \in SessionInstants}
    \cup {RawRecord("v1", t, d, "absent", "unknown") : t \in {0, 300}, d \in {600, 12000}}

InitSessions ==
    /\ \E batch \in SeqsUpTo(SessionRecords, MaxSessionEvents) : EngineIdle(batch)
    /\ FirestoreEmpty

SpecSessions == InitSessions /\ [][Run]_vars

(* View Classifier inputs: every provenance, at two instants far apart *)
MaxClassifierEvents == 3
ClassifierRecords ==
    {RawRecord("v1", t, Unknown, "absent", p) : t \in {0, 7200}, p \in Provenances}

InitClassifier ==
    /\ \E batch \in SeqsUpTo(ClassifierRecords, MaxClassifierEvents) : EngineIdle(batch)
    /\ FirestoreEmpty

SpecClassifier == InitClassifier /\ [][Run \/ RenderSnapshot]_vars

(* Streak Detector inputs: shorts of 30 s, shorts of unknown length known  *)
(* by their flag, and long videos, at two instants far apart               *)
MaxStreakEvents == 5
StreakRecords ==
    {RawRecord("v1", t, k[1], k[2], "unknown") :
        t \in {0, 7200}, k \in {<<30, "absent">>, <<Unknown, "true">>, <<600, "absent">>}}

InitStreaks ==
    /\ \E batch \in SeqsUpTo(StreakRecords, MaxStreakEvents) : EngineIdle(batch)
    /\ FirestoreEmpty

SpecStreaks == InitStreaks /\ [][Run]_vars

(* Repeat-View Aggregator inputs: two videos at two instants; the list     *)
(* component is also given repeat_views of producers that do not filter    *)
MaxRepeatEvents == 4
RepeatRecords ==
    {RawRecord(v, t, Unknown, "absent", "unknown") : v \in {"v1", "v2"}, t \in {100, 200}}

RepeatItems ==
    {[video_id |-> "v1", watch_count |-> 1, last_watched_at |-> 100],
     [video_id |-> "v2", watch_count |-> 3, last_watched_at |-> 200],
     [video_id |-> "v3", last_watched |-> 100],
     [video_id |-> "v4", watch_count |-> 2]}

OtherAnalytics ==
    {[repeat_views |-> items] : items \in SeqsUpTo(RepeatItems, 2)}
    \cup {[total_events |-> 0]}

\* the dashboard is handed analytics of another producer
RenderOther ==
    /\ \E a \in OtherAnalytics : Render(a)
    /\ UNCHANGED <<engineVars, firestoreVars, storeVars, restVars>>

InitRepeat ==
    /\ \E batch \in SeqsUpTo(RepeatRecords, MaxRepeatEvents) : EngineIdle(batch)
    /\ FirestoreEmpty

SpecRepeat == InitRepeat /\ [][Run \/ RenderSnapshot \/ RenderOther]_vars

(* Temporal Aggregator inputs: instants in three cells of the grid; the    *)
(* Firestore collection holds one session document per record, of either   *)
(* user                                                                    *)
MaxTemporalEvents == 3
TemporalRecords ==
    {RawRecord("v1", 0, 90, "absent", "unknown"),
     RawRecord("v1", 1800, 600, "absent", "unknown"),
     RawRecord("v1", 3600 * 23, 90, "absent", "unknown"),
     RawRecord("v1", 86400 * 3 + 3600 * 5, 600, "absent", "unknown")}

InitTemporal ==
    \E batch \in SeqsUpTo(TemporalRecords, MaxTemporalEvents) :
        /\ EngineIdle(batch)
        /\ \E owner \in [1..Len(batch) -> Users] :
               watchSessions = [i \in 1..Len(batch) |->
                   WatchSessionDoc(owner[i], batch[i].video_id, batch[i].watched_at,
                                   batch[i].duration_seconds)]
        /\ watchTimeHeatmap = [userId |-> "none", result |-> <<>>]

SpecTemporal ==
    InitTemporal /\ [][Run \/ RenderSnapshot \/ \E u \in Users : FetchWatchTimeHeatmap(u)]_vars

(* Ranking inputs: more videos than the list shows, each watched twice or  *)
(* three times, their last instants in an order that is neither the input  *)
(* order nor its reverse                                                   *)
MaxRankedVideos == 11
RankedVideoIds ==
    <<"v01", "v02", "v03", "v04", "v05", "v06", "v07",
      "v08", "v09", "v10", "v11", "v12", "v13", "v14">>

RankedBase(i) == 10 * ((i * 5) % 17)

RankedHistory(counts) ==
    Flatten([i \in 1..MaxRankedVideos |->
                [k \in 1..counts[i] |->
                    RawRecord(RankedVideoIds[i], RankedBase(i) + k, Unknown,
                              "absent", "unknown")]])

InitRanking ==
    /\ \E counts \in [1..MaxRankedVideos -> {2, 3}] : EngineIdle(RankedHistory(counts))
    /\ FirestoreEmpty

SpecRanking == InitRanking /\ [][Run \/ RenderSnapshot]_vars

(* Assembler inputs: shorts and long videos of two ids and of every kind   *)
(* of provenance, close together and far apart                             *)
MaxAssemblyEvents == 3
AssemblyRecords ==
    {RawRecord("v1", 0, 30, "absent", "recommended"),
     RawRecord("v1", 60, Unknown, "true", "unknown"),
     RawRecord("v2", 120, 45, "absent", "search"),
     RawRecord("v2", 7200, 600, "absent", "subscription_feed"),
     RawRecord("v1", 90000, Unknown, "absent", "direct_link"),
     RawRecord(NoVideoId, 0, 30, "absent", "unknown")}

InitAssembly ==
    /\ \E batch \in SeqsUpTo(AssemblyRecords, MaxAssemblyEvents) : EngineIdle(batch)
    /\ FirestoreEmpty

SpecAssembly == InitAssembly /\ [][Run \/ Reassemble]_vars

(* Engine state machine inputs: valid records of two videos, a record     *)
(* without video id and one whose instant does not parse; histories are    *)
(* handed over one after the other                                         *)
MaxEngineBatch == 2
EngineRecords ==
    {RawRecord("v1", 0, 30, "absent", "recommended"),
     RawRecord("v1", 7200, 600, "absent", "search"),
     RawRecord("v2", 0, Unknown, "absent", "unknown"),
     RawRecord(NoVideoId, 0, 30, "absent", "unknown"),
     RawRecord("v1", Unparsable, 30, "absent", "unknown")}

\* no history at hand, nothing stored, nothing loaded
EngineAtRest ==
    /\ history = <<>>
    /\ pc = "idle"
    /\ events = <<>>
    /\ dropped = 0
    /\ sessions = <<>>
    /\ classified = <<>>
    /\ streaks = <<>>
    /\ repeat_views = <<>>
    /\ heatmap = ZeroHeatmap
    /\ assembled = NoSnapshot
    /\ reassembled = NoSnapshot
    /\ snapshot = NoSnapshot
    /\ engineState = "no_snapshot"
    /\ runResult = "none"
    /\ shown = NothingShown
    /\ StoreIdle

InitEngine ==
    /\ EngineAtRest
    /\ RestIdle
    /\ FirestoreEmpty

SpecEngine ==
    InitEngine
    /\ [][Run \/ \E batch \in SeqsUpTo(EngineRecords, MaxEngineBatch) : Submit(batch)]_vars

(* Import inputs: videos with and without id, short and long, with the     *)
(* isShort flag absent, true and false                                     *)
MaxImportVideos == 2
ImportVideos ==
    {[id |-> v, videoLength |-> d, isShort |-> f] :
        v \in {"v1", NoVideoId}, d \in {30, 600}, f \in {"absent", "true", "false"}}

InitImport ==
    /\ EngineAtRest
    /\ FirestoreEmpty
    /\ \E data \in SeqsUpTo(ImportVideos, MaxImportVideos) :
           /\ importData = data
           /\ importPhase = IF data = <<>> THEN "done" ELSE "stats"
    /\ importPos = 1
    /\ importNow = ImportStart
    /\ videoStats = <<>>
    /\ DataIdle

SpecImport == InitImport /\ [][ImportStoreStats \/ ImportStoreSession]_vars

(* Data store: the listener is registered, Firebase Auth has not yet      *)
(* reported a user                                                         *)
InitData ==
    /\ EngineAtRest
    /\ FirestoreEmpty
    /\ ImportIdle
    /\ DataIdle

SpecData == InitData /\ [][NextData]_vars

(* Store inputs: a file with no valid entry, and files of one and of two   *)
(* valid entries                                                           *)
StoreBatches ==
    {<<RawRecord(NoVideoId, 0, 30, "absent", "unknown")>>,
     <<RawRecord("v1", 0, 30, "absent", "recommended")>>,
     <<RawRecord("v1", 0, 30, "absent", "recommended"),
       RawRecord("v1", 7200, 600, "absent", "search")>>}

NextStore ==
    \/ \E batch \in StoreBatches : UploadStart(batch)
    \/ ServerUpload
    \/ UploadFail
    \/ UploadOk
    \/ RefreshStatusDone
    \/ RefreshAnalyticsDone
    \/ DashLoadStatus
    \/ DashStatusDone
    \/ DashLoadAnalytics
    \/ DashAnalyticsDone
    \/ DeleteStart
    \/ ServerDelete
    \/ DeleteDone
    \/ DeleteFail
    \/ Tick

SpecStore == InitEngine /\ [][NextStore]_vars

(* The store with the failures of each refresh noted *)
NextRefresh ==
    \/ \E batch \in StoreBatches : UploadStart(batch)
    \/ ServerUpload
    \/ UploadFail
    \/ UploadOk
    \/ RefreshStatusLogged
    \/ RefreshAnalyticsLogged
    \/ DashLoadStatus
    \/ DashStatusDone
    \/ DashLoadAnalytics
    \/ DashAnalyticsDone
    \/ DeleteStart
    \/ ServerDelete
    \/ DeleteDone
    \/ DeleteFail
    \/ Tick

SpecRefresh == InitEngine /\ [][NextRefresh]_vars

-----------------------------------------------------------------------------
(* Properties of the Session Reconstructor *)

Done == pc = "idle" /\ runResult # "none"

SessionLengths == [s \in 1..Len(sessions) |-> Len(sessions[s])]

\* position j of the concatenated sessions is the first event of a session
IsSessionStart(j) ==
    \E s \in 1..Len(sessions) : j = 1 + SumSeq(SubSeq(SessionLengths, 1, s - 1))

\* the gap of 4.2 in front of position j (j > 1) of the sorted list
GapBefore(flat, j) ==
    LET prev == flat[j - 1]
        covered == IF prev.duration_seconds = Unknown THEN 0
                   ELSE IF prev.duration_seconds < DurationCap
                        THEN prev.duration_seconds ELSE DurationCap
    IN  flat[j].watched_at - (prev.watched_at + covered)

Gaps(flat) == [j \in 1..(Len(flat) - 1) |-> GapBefore(flat, j + 1)]

\* C1: the sessions partition the normalized events: no session is empty,
\* every event is in exactly one session, and the sessions read in output
\* order are the events in ascending watched_at order, events of the same
\* instant in their input order.
C1_SessionsPartition ==
    Done =>
        LET flat == Flatten(sessions)
        IN  /\ \A s \in 1..Len(sessions) : Len(sessions[s]) >= 1
            /\ Len(flat) = Len(events)
            /\ \A i \in 1..Len(events) :
                   Cardinality({j \in 1..Len(flat) : flat[j] = events[i]}) = 1
            /\ \A j \in 1..(Len(flat) - 1) :
                   \/ flat[j].watched_at < flat[j + 1].watched_at
                   \/ /\ flat[j].watched_at = flat[j + 1].watched_at
                      /\ flat[j].pos < flat[j + 1].pos

\* an unsorted input with two events of one instant, split into sessions
C1_Witness ==
    /\ Done
    /\ Len(sessions) >= 2
    /\ \E i, j \in 1..Len(events) :
           i < j /\ events[i].watched_at > events[j].watched_at
    /\ \E i, j \in 1..Len(events) :
           i < j /\ events[i].watched_at = events[j].watched_at

\* the split rule: an event starts a session exactly when the gap in front
\* of it is strictly greater than the inactivity threshold
SplitRule ==
    LET flat == Flatten(sessions)
    IN  \A j \in 2..Len(flat) :
            IsSessionStart(j) <=> GapBefore(flat, j) > InactivityThreshold

-----------------------------------------------------------------------------
(* Properties of the View Classifier *)

\* the two shares are fractions of one whole
SharesConserved(total, a, i) ==
    /\ a.den > 0 /\ 0 <= a.num /\ a.num <= a.den
    /\ i.den > 0 /\ 0 <= i.num /\ i.num <= i.den
    /\ total > 0 => a.num * i.den + i.num * a.den = a.den * i.den
    /\ total = 0 => a.num = 0 /\ i.num = 0

\* C5: in every snapshot the run assembles, stores or the highlights card
\* shows, the algorithmic and the intentional share are in [0,1], sum to 1
\* when there are events and are both 0 when there are none; every event is
\* counted as exactly one of the two.
C5_ShareConservation ==
    /\ Done =>
        /\ SharesConserved(assembled.total_events,
                           assembled.algorithmic_view_share,
                           assembled.intentional_view_share)
        /\ assembled.total_events = Len(events)
        /\ assembled.total_events > 0 =>
               /\ assembled.algorithmic_view_share.den = Len(events)
               /\ assembled.intentional_view_share.den = Len(events)
               /\ assembled.algorithmic_view_share.num
                      + assembled.intentional_view_share.num = Len(events)
    /\ snapshot # NoSnapshot =>
           SharesConserved(snapshot.total_events,
                           snapshot.algorithmic_view_share,
                           snapshot.intentional_view_share)
    /\ shown.highlights.view = "cards" =>
           SharesConserved(shown.analytics.total_events,
                           shown.highlights.algorithmicShare,
                           shown.highlights.intentionalShare)

\* the card shows a snapshot with views of both kinds and one of unknown provenance
C5_Witness ==
    /\ Done
    /\ shown.highlights.view = "cards"
    /\ shown.analytics = snapshot
    /\ shown.highlights.algorithmicShare.num > 0
    /\ shown.highlights.intentionalShare.num > 0
    /\ \E i \in 1..Len(events) : events[i].provenance = "unknown"

KnownAlgorithmic(session) ==
    {i \in 1..Len(session) :
        session[i].provenance \in {"recommended", "subscription_feed", "notification"}}

KnownIntentional(session) ==
    {i \in 1..Len(session) : session[i].provenance \in {"search", "direct_link"}}

\* C6: recommended, subscription_feed and notification are algorithmic,
\* search and direct_link are not, and an event of unknown provenance takes
\* the majority of the known events of its session, and is not algorithmic
\* when there is no majority (in particular when no event of the session
\* has a known provenance).
C6_Classification ==
    Done =>
        /\ Len(classified) = Len(sessions)
        /\ \A s \in 1..Len(sessions) :
            /\ Len(classified[s]) = Len(sessions[s])
            /\ \A i \in 1..Len(sessions[s]) :
                LET e == sessions[s][i]
                    c == classified[s][i]
                    alg == Cardinality(KnownAlgorithmic(sessions[s]))
                    int == Cardinality(KnownIntentional(sessions[s]))
                IN  /\ c.event = e
                    /\ e.provenance \in {"recommended", "subscription_feed", "notification"}
                           => c.algorithmic
                    /\ e.provenance \in {"search", "direct_link"} => ~c.algorithmic
                    /\ e.provenance = "unknown" =>
                           /\ alg > int => c.algorithmic
                           /\ int > alg => ~c.algorithmic
                           /\ alg = int => ~c.algorithmic

\* one unknown event follows the algorithmic majority of its session, and
\* another one, in a session with no known event, is not algorithmic
C6_Witness ==
    /\ Done
    /\ \E s \in 1..Len(classified) : \E i \in 1..Len(classified[s]) :
           /\ classified[s][i].event.provenance = "unknown"
           /\ classified[s][i].algorithmic
    /\ \E s \in 1..Len(classified) :
           /\ \A i \in 1..Len(classified[s]) :
                  classified[s][i].event.provenance = "unknown"
           /\ \A i \in 1..Len(classified[s]) : ~classified[s][i].algorithmic

-----------------------------------------------------------------------------
(* Properties of the Streak Detector *)

\* positions a..b of session s hold the events of streak k
StreakAt(k, s, a, b) ==
    /\ 1 <= a /\ a <= b /\ b <= Len(sessions[s])
    /\ streaks[k].events = SubSeq(sessions[s], a, b)

\* C7: every streak has at least 2 videos, all of them shorts, and its
\* events are consecutive events of exactly one session.
C7_StreakMinimality ==
    Done =>
        \A k \in 1..Len(streaks) :
            /\ streaks[k].video_count >= 2
            /\ streaks[k].video_count = Len(streaks[k].events)
            /\ \A i \in 1..Len(streaks[k].events) : streaks[k].events[i].is_short
            /\ Cardinality({s \in 1..Len(sessions) :
                   \E a, b \in 1..Len(sessions[s]) : StreakAt(k, s, a, b)}) = 1

\* shorts on both sides of a session boundary, each side a streak of its own
C7_Witness ==
    /\ Done
    /\ Len(sessions) = 2
    /\ Len(streaks) = 2
    /\ sessions[1][Len(sessions[1])].is_short
    /\ sessions[2][1].is_short

\* positions a..b of session s are a maximal run of shorts
MaximalShortRun(s, a, b) ==
    /\ 1 <= a /\ a <= b /\ b <= Len(sessions[s])
    /\ \A i \in a..b : sessions[s][i].is_short
    /\ a > 1 => ~sessions[s][a - 1].is_short
    /\ b < Len(sessions[s]) => ~sessions[s][b + 1].is_short

RunSeconds(s, a, b) ==
    SumSeq([i \in 1..(b - a + 1) |->
        IF sessions[s][a + i - 1].duration_seconds = Unknown THEN 30
        ELSE sessions[s][a + i - 1].duration_seconds])

LongRuns ==
    {r \in UNION {{<<s, a, b>> : a, b \in 1..Len(sessions[s])} : s \in 1..Len(sessions)} :
        MaximalShortRun(r[1], r[2], r[3]) /\ r[3] - r[2] + 1 >= 2}

\* C8: every maximal run of k >= 2 shorts of a session, also one that ends
\* with the session, yields exactly one streak, of k videos and of the sum
\* of the durations (30 s where unknown) over 60 minutes; nothing else is a
\* streak, so no two streaks overlap or touch; 5 shorts of 30 s in a row
\* are one streak of 5 videos and 2.5 minutes.
C8_StreaksMaximal ==
    Done =>
        /\ Len(streaks) = Cardinality(LongRuns)
        /\ \A r \in LongRuns :
            LET hits == {k \in 1..Len(streaks) : StreakAt(k, r[1], r[2], r[3])}
            IN  /\ Cardinality(hits) = 1
                /\ \A k \in hits :
                    /\ streaks[k].video_count = r[3] - r[2] + 1
                    /\ streaks[k].duration_minutes.den = 60
                    /\ streaks[k].duration_minutes.num = RunSeconds(r[1], r[2], r[3])
                    /\ (/\ streaks[k].video_count = 5
                        /\ \A i \in 1..5 : streaks[k].events[i].duration_seconds = 30)
                           => 2 * streaks[k].duration_minutes.num
                                  = 5 * streaks[k].duration_minutes.den
        /\ \A k1, k2 \in 1..Len(streaks) :
               k1 # k2 =>
                   \A i \in 1..Len(streaks[k1].events), j \in 1..Len(streaks[k2].events) :
                       streaks[k1].events[i] # streaks[k2].events[j]

\* five shorts of 30 s that fill a session: one streak of 5 videos, 2.5 minutes
C8_Witness ==
    /\ Done
    /\ Len(sessions) = 1
    /\ Len(sessions[1]) = 5
    /\ \A i \in 1..5 : sessions[1][i].duration_seconds = 30
    /\ Len(streaks) = 1
    /\ streaks[1].video_count = 5
    /\ streaks[1].duration_minutes = [num |-> 150, den |-> 60]

-----------------------------------------------------------------------------
(* Properties of the Temporal Aggregator and of the heatmap consumers *)

Cells == (0..6) \X (0..23)

IsDense(grid) == DOMAIN grid = 0..6 /\ \A d \in 0..6 : DOMAIN grid[d] = 0..23

GridSum(grid) == SumSeq([k \in 1..168 |-> grid[(k - 1) \div 24][(k - 1) % 24]])

DocsOf(userId) == {i \in 1..Len(watchSessions) : watchSessions[i].userId = userId}

RECURSIVE SumOver(_, _)
SumOver(S, f) ==
    IF S = {} THEN 0
    ELSE LET x == CHOOSE y \in S : TRUE IN f[x] + SumOver(S \ {x}, f)

\* C9: the heatmap of a run has all 168 cells, each the number of events
\* of its (weekday, hour), 0 where there is none, and the cells sum to the
\* number of events; getWatchTimeHeatmap returns all 168 cells, day by day
\* and hour by hour, each the minutes of the user's sessions that start in
\* it, summing to the user's total session duration; the grid ViewingHeatmap draws has all 168 cells
\* and shows the counts of the heatmap it is given.
C9_HeatmapDense ==
    /\ Done =>
        /\ IsDense(heatmap)
        /\ \A c \in Cells :
               heatmap[c[1]][c[2]] =
                   Cardinality({i \in 1..Len(events) :
                       /\ Weekday(events[i].watched_at) = c[1]
                       /\ Hour(events[i].watched_at) = c[2]})
        /\ GridSum(heatmap) = Len(events)
        /\ assembled.heatmap = heatmap
    /\ watchTimeHeatmap.userId # "none" =>
        LET res == watchTimeHeatmap.result
            mine == DocsOf(watchTimeHeatmap.userId)
        IN  /\ Len(res) = 168
            /\ \A k \in 1..Len(res) :
                   /\ res[k].day \in 0..6 /\ res[k].hour \in 0..23
                   /\ k = 24 * res[k].day + res[k].hour + 1
                   /\ res[k].value.den = 60
                   /\ res[k].value.num =
                          SumOver({i \in mine :
                                      /\ JsDay(watchSessions[i].startTime) = res[k].day
                                      /\ JsHours(watchSessions[i].startTime) = res[k].hour},
                                  [i \in 1..Len(watchSessions) |-> watchSessions[i].duration])
            /\ SumSeq([k \in 1..Len(res) |-> res[k].value.num]) =
                   SumOver(mine, [i \in 1..Len(watchSessions) |-> watchSessions[i].duration])
    /\ shown.analytics # Null =>
        /\ shown.heatmap.view = "grid"
        /\ IsDense(shown.heatmap.grid)
        /\ \A c \in Cells :
               shown.heatmap.grid[c[1]][c[2]] = shown.analytics.heatmap[c[1]][c[2]]
        /\ GridSum(shown.heatmap.grid) = shown.analytics.total_events

\* a sparse history: two events in one cell, the grid drawn, and the
\* Firestore table fetched for a user who owns two sessions of one cell
C9_Witness ==
    /\ Done
    /\ Len(events) = 2
    /\ \E c \in Cells : heatmap[c[1]][c[2]] = 2
    /\ shown.heatmap.view = "grid"
    /\ watchTimeHeatmap.userId = "u1"
    /\ \E k \in 1..Len(watchTimeHeatmap.result) :
           watchTimeHeatmap.result[k].value.num = 690

-----------------------------------------------------------------------------
(* Properties of the Repeat-View Aggregator and of the repeat-watch list *)

WithVideo(v) == {i \in 1..Len(events) : events[i].video_id = v}

\* C10: repeat_views holds exactly one entry per video id of at least 2
\* events and none for an id of one event; its watch_count is the number of
\* events of the id and its last_watched_at their latest watched_at; the
\* list RepeatWatchList shows holds no item of a count below 2.
C10_RepeatViews ==
    /\ Done =>
        /\ \A i \in 1..Len(events) :
               Cardinality({k \in 1..Len(repeat_views) :
                               repeat_views[k].video_id = events[i].video_id})
                   = IF Cardinality(WithVideo(events[i].video_id)) >= 2 THEN 1 ELSE 0
        /\ \A k \in 1..Len(repeat_views) :
            LET group == WithVideo(repeat_views[k].video_id)
            IN  /\ Cardinality(group) >= 2
                /\ repeat_views[k].watch_count = Cardinality(group)
                /\ \E i \in group : events[i].watched_at = repeat_views[k].last_watched_at
                /\ \A i \in group : events[i].watched_at <= repeat_views[k].last_watched_at
        /\ assembled.repeat_views = repeat_views
    /\ \A i \in 1..Len(shown.repeatWatches) : shown.repeatWatches[i].timesWatched >= 2

\* a run with one video seen twice and one seen once, and the list given
\* items of counts 1 and 3, of which it shows one
C10_Witness ==
    /\ Done
    /\ Len(repeat_views) = 1
    /\ repeat_views[1].watch_count = 2
    /\ repeat_views[1].last_watched_at = 200
    /\ Len(events) = 3
    /\ "repeat_views" \in DOMAIN shown.analytics
    /\ Len(shown.analytics.repeat_views) = 2
    /\ \E i \in 1..2 : shown.analytics.repeat_views[i].video_id = "v1"
    /\ Len(shown.repeatWatches) = 1

-----------------------------------------------------------------------------
(* Properties of the engine state machine *)

SnapshotFields ==
    {"total_events", "unique_videos", "average_videos_per_session",
     "average_shorts_streak_minutes", "algorithmic_view_share",
     "intentional_view_share", "repeat_views", "heatmap", "weekly_minutes"}

\* the records of a raw history the normalizer accepts
ValidIndexes(raw) ==
    {i \in 1..Len(raw) : raw[i].video_id # NoVideoId /\ raw[i].watched_at # Unparsable}

\* snap says of the raw history what that history alone gives
DerivedFrom(snap, raw) ==
    LET ok == ValidIndexes(raw)
    IN  /\ DOMAIN snap = SnapshotFields
        /\ snap.total_events = Cardinality(ok)
        /\ snap.unique_videos = Cardinality({raw[i].video_id : i \in ok})
        /\ IsDense(snap.heatmap)
        /\ \A d \in 0..6, h \in 0..23 :
               snap.heatmap[d][h] =
                   Cardinality({i \in ok : /\ Weekday(raw[i].watched_at) = d
                                           /\ Hour(raw[i].watched_at) = h})
        /\ \A k \in 1..Len(snap.repeat_views) :
               snap.repeat_views[k].watch_count =
                   Cardinality({i \in ok : raw[i].video_id = snap.repeat_views[k].video_id})
        /\ \A i \in ok :
               Cardinality({j \in ok : raw[j].video_id = raw[i].video_id}) >= 2
                   => \E k \in 1..Len(snap.repeat_views) :
                          snap.repeat_views[k].video_id = raw[i].video_id

\* what is stored is nothing, or a whole snapshot
WholeSnapshot ==
    /\ engineState \in {"no_snapshot", "snapshot_ready"}
    /\ engineState = "no_snapshot" <=> snapshot = NoSnapshot
    /\ snapshot # NoSnapshot =>
           /\ DOMAIN snapshot = SnapshotFields
           /\ snapshot.total_events >= 1
           /\ IsDense(snapshot.heatmap)
           /\ GridSum(snapshot.heatmap) = snapshot.total_events
    /\ Done /\ runResult = "ok" => DerivedFrom(snapshot, history)

\* a step that changes what is stored is a successful run, and what it
\* stores is derived from the history of that run
OnlyRunsStore ==
    (snapshot' # snapshot \/ engineState' # engineState) =>
        /\ pc = "ready"
        /\ runResult' = "ok"
        /\ engineState' = "snapshot_ready"
        /\ DerivedFrom(snapshot', history)

\* C4: the engine starts in no_snapshot and is always in no_snapshot (with
\* nothing stored) or in snapshot_ready (with a whole snapshot stored); only
\* a successful run changes the state or the stored snapshot, and the
\* snapshot held after a successful run is derived from the input of that
\* run alone.
C4_EngineStates ==
    /\ engineState = "no_snapshot"
    /\ []WholeSnapshot
    /\ [][OnlyRunsStore]_vars

\* a successful run on a history of one valid and one dropped record
C4_Witness ==
    /\ Done
    /\ runResult = "ok"
    /\ engineState = "snapshot_ready"
    /\ Len(history) = 2
    /\ dropped = 1
    /\ snapshot.total_events = 1

-----------------------------------------------------------------------------
(* Properties of failed runs and failed uploads *)

\* the backend has run the engine on an upload and the run failed
FailedRunStep ==
    /\ uploadProc.pc = "sent"
    /\ uploadProc'.pc = "responded"
    /\ runResult' # "ok"

\* a step of uploadTakeout on its way to failure: its start, and its catch
FailingUploadStep ==
    \/ uploadProc.pc = "idle" /\ uploadProc'.pc = "sent"
    \/ uploadProc.pc \in {"sent", "responded"} /\ uploadProc'.pc = "idle"

\* C3: a run that fails (EmptyHistory, also for an input with no valid
\* event) leaves the stored snapshot and the engine state as they were, and
\* an uploadTakeout that fails leaves analytics and status of the store as
\* they were.
C3_FailedRunKeepsSnapshot ==
    [][/\ FailedRunStep =>
              /\ runResult' = "EmptyHistory"
              /\ snapshot' = snapshot
              /\ engineState' = engineState
       /\ FailingUploadStep =>
              /\ store'.analytics = store.analytics
              /\ store'.status = store.status]_vars

\* a snapshot is stored and loaded, then an upload of a file with no valid
\* entry has failed: snapshot, analytics and status are still there
C3_Witness ==
    /\ uploadProc.pc = "idle"
    /\ store.error = "upload_failed"
    /\ ~store.isUploading
    /\ runResult = "EmptyHistory"
    /\ Len(history) = 1
    /\ snapshot # NoSnapshot
    /\ store.analytics = snapshot
    /\ store.status # Null

-----------------------------------------------------------------------------
(* Properties of the repeat-view order *)

\* a is not behind b: a higher count, or the same count and not an earlier
\* last instant
RankedBefore(a, b) ==
    \/ a.watch_count > b.watch_count
    \/ a.watch_count = b.watch_count /\ a.last_watched_at >= b.last_watched_at

\* C11: the repeat views of a run are in descending watch_count order, those
\* of one count in descending last_watched_at order, and the list the
\* component shows of a snapshot is the first 10 of them (all, if fewer) in
\* that same order.
C11_RepeatOrder ==
    /\ Done =>
           \A k \in 1..(Len(repeat_views) - 1) :
               RankedBefore(repeat_views[k], repeat_views[k + 1])
    /\ shown.analytics # Null =>
           LET given == shown.analytics.repeat_views
               list == shown.repeatWatches
           IN  /\ Len(list) = Min(Len(given), TopRepeatWatches)
               /\ \A i \in 1..Len(list) :
                      /\ list[i].videoId = given[i].video_id
                      /\ list[i].timesWatched = given[i].watch_count
                      /\ list[i].lastWatched = given[i].last_watched_at

\* more than 10 repeat views, the cut falling between two of the same
\* count, and the list showing the first 10
C11_Witness ==
    /\ Done
    /\ Len(repeat_views) > TopRepeatWatches
    /\ shown.analytics = snapshot
    /\ Len(shown.repeatWatches) = TopRepeatWatches
    /\ repeat_views[TopRepeatWatches].watch_count
           = repeat_views[TopRepeatWatches + 1].watch_count
    /\ repeat_views[1].watch_count > repeat_views[TopRepeatWatches].watch_count
    /\ \E i \in 1..(TopRepeatWatches - 1) :
           /\ shown.repeatWatches[i].timesWatched = shown.repeatWatches[i + 1].timesWatched
           /\ shown.repeatWatches[i].lastWatched > shown.repeatWatches[i + 1].lastWatched

-----------------------------------------------------------------------------
(* Properties of the history import *)

ImportEnded == importPhase \in {"done", "thrown"}

\* the videos of the input that have an id
VideosWithId == {i \in 1..Len(importData) : importData[i].id # NoVideoId}

\* C12 as stated, of processWatchHistory: the import never aborts, a video
\* without id yields no session, every other video yields exactly one, so
\* that sessions and dropped videos add up to the input.
C12_FailSoftImport ==
    ImportEnded =>
        /\ importPhase = "done"
        /\ \A k \in 1..Len(watchSessions) : watchSessions[k].videoId # NoVideoId
        /\ Len(watchSessions) = Cardinality(VideosWithId)

\* C14 as stated, of recordWatchSession: a recorded video of known length is
\* a short exactly when its length is at most 60 seconds, whatever its flag.
C14_ShortByDuration ==
    /\ \A k \in 1..Len(watchSessions) :
           watchSessions[k].isShort = (watchSessions[k].duration <= ShortVideoSeconds)
    /\ \A k \in 1..Len(videoStats) :
           videoStats[k].isShort = (videoStats[k].videoLength <= ShortVideoSeconds)

-----------------------------------------------------------------------------
(* Properties of the Snapshot Assembler *)

StageOutputs == <<events, sessions, classified, streaks, repeat_views, heatmap>>

-----------------------------------------------------------------------------
(* Liked-videos data store *)

SignedOut == dataStore.user = NoUser

\* C15: once the auth listener has processed a sign-out (user == null),
\* analytics and syncStatus are null and stay null until the next sign-in,
\* also when a loadSyncStatus or loadAnalytics request started while signed
\* in resolves after the sign-out.
C15_SignedOutHoldsNothing ==
    SignedOut => /\ dataStore.analytics = Null
                 /\ dataStore.syncStatus = Null

SubscriptionsOf(kind) == {sub \in subscriptions : sub.kind = kind}

\* C16: at most one profile subscription and one preferences subscription
\* are active at any time, each belongs to the signed-in user, and none is
\* active while user == null, for every ordering of the auth callbacks.
C16_OneSubscriptionEach ==
    /\ Cardinality(SubscriptionsOf("profile")) <= 1
    /\ Cardinality(SubscriptionsOf("preferences")) <= 1
    /\ \A sub \in subscriptions : sub.uid = dataStore.user
    /\ SignedOut => subscriptions = {}

AnalyticsInFlight == {i \in 1..Len(dataCalls) : dataCalls[i].kind = "analytics"}

\* C20: at most one get_analytics request of the liked-videos store is in
\* flight at any time, across every interleaving of loadSyncStatus,
\* loadAnalytics, refreshData and auth-state changes.
C20_OneAnalyticsRequest ==
    Cardinality(AnalyticsInFlight) <= 1

-----------------------------------------------------------------------------
(* Watch-history store: when analytics are requested *)

\* get_watch_history_analytics requests in flight
AnalyticsRequests ==
    (IF analyticsProc = "waiting" THEN 1 ELSE 0)
    + (IF uploadProc.pc = "refresh_analytics" THEN 1 ELSE 0)

\* this step issues a get_watch_history_analytics request
IssuesRequest ==
    \/ analyticsProc = "idle" /\ analyticsProc' = "waiting"
    \/ uploadProc.pc = "refresh_status" /\ uploadProc'.pc = "refresh_analytics"

\* this step is refresh going from loadStatus to its call of loadAnalytics
RefreshCallsLoadAnalytics ==
    uploadProc.pc = "refresh_status" /\ uploadProc'.pc # "refresh_status"

\* the status loadAnalytics finds lets it ask
StatusAllows(s) == HasEvents(s) /\ IsReady(s)

\* C17: the watch-history store requests analytics only when the stored
\* status has total_events > 0 and processing_state "completed"; a
\* loadAnalytics call in any other status (status == null included) issues
\* no request, leaves analytics unchanged and ends with isLoadingAnalytics
\* false.
C17_AnalyticsOnlyWhenReady ==
    [][/\ IssuesRequest => StatusAllows(store')
       /\ RefreshCallsLoadAnalytics /\ ~StatusAllows(store') =>
              /\ ~IssuesRequest
              /\ AnalyticsRequests' = AnalyticsRequests
              /\ store'.analytics = store.analytics
              /\ store'.isLoadingAnalytics = FALSE]_vars

\* an upload has ended after a refresh that found the history still being
\* processed: loadAnalytics was called and asked for nothing
C17_Witness ==
    /\ uploadProc = ProcIdle
    /\ store.uploadMessage = "uploaded"
    /\ ~store.isUploading
    /\ store.status # Null
    /\ HasEvents(store)
    /\ ~IsReady(store)
    /\ store.analytics = Null
    /\ store.lastAnalyticsAttemptAt = NoTime
    /\ AnalyticsRequests = 0

\* C18: two get_watch_history_analytics requests of the watch-history store
\* are at least 5 seconds apart: a loadAnalytics call less than 5000 ms
\* after the previous attempt issues no request, and lastAnalyticsAttemptAt
\* changes only when a request is issued.
C18_RequestsApart ==
    [][/\ IssuesRequest =>
              /\ store'.lastAnalyticsAttemptAt = clock
              /\ \/ store.lastAnalyticsAttemptAt = NoTime
                 \/ clock - store.lastAnalyticsAttemptAt >= AnalyticsThrottleMs
       /\ store'.lastAnalyticsAttemptAt # store.lastAnalyticsAttemptAt =>
              IssuesRequest]_vars

\* a second request, issued 5000 ms after the first
C18_Witness ==
    /\ AnalyticsRequests = 1
    /\ store.lastAnalyticsAttemptAt = ClockStart + AnalyticsThrottleMs
    /\ store.lastUpdatedAt = ClockStart

\* a successful upload has ended, with nothing else of the store failing
UploadEndedWell ==
    /\ uploadProc = ProcIdle
    /\ ~store.isUploading
    /\ store.uploadMessage = "uploaded"
    /\ store.error = NoError

\* C19: after uploadTakeout has completed successfully and the refreshed
\* status reports total_events > 0 with processing_state "completed", the
\* analytics the store holds are those of the uploaded history, not those
\* fetched before the upload.
C19_FreshAfterUpload ==
    (/\ UploadEndedWell
     /\ StatusAllows(store)
     /\ snapshot # NoSnapshot
     /\ store.status.total_events = snapshot.total_events
     /\ store.analytics # Null)
        => store.analytics = snapshot

-----------------------------------------------------------------------------
(* Liked-videos data store: the sample size of the analytics *)

\* the loadSyncStatus calls still running: awaiting get_sync_status, or
\* awaiting the loadAnalytics they called
SyncRunning(calls) ==
    {i \in 1..Len(calls) :
        calls[i].kind = "sync" \/ calls[i].outer \in {"sync", "sync-refresh"}}

\* this step ends a loadSyncStatus call
LoadSyncStatusCompletes ==
    Cardinality(SyncRunning(dataCalls')) < Cardinality(SyncRunning(dataCalls))

\* a non-null analytics value comes from a request of analyticsSampleSize
AnalyticsOfSampleSize(s) ==
    s.analytics # Null => s.analytics.sample_size = s.analyticsSampleSize

\* the status the store holds reports a sample size
ReportsSampleSize(s) ==
    /\ s.syncStatus # Null
    /\ {"sample_size", "sampleSize", "preferred_sample_size"} \cap DOMAIN s.syncStatus # {}

\* the store holds analytics fetched with the sample size of its status
HoldsStatusSample(s) ==
    /\ s.analytics # Null
    /\ s.analytics.sample_size = DesiredOfStatus(s.syncStatus)
    /\ s.analyticsSampleSize = DesiredOfStatus(s.syncStatus)

\* a get_analytics request with the sample size of the status is in flight
StatusSampleOnItsWay(s, calls) ==
    \E i \in 1..Len(calls) : /\ calls[i].kind = "analytics"
                             /\ calls[i].sampleSize = DesiredOfStatus(s.syncStatus)

\* C21: when loadSyncStatus completes for a signed-in user with a status
\* reporting sample size S and no analytics request has failed, the store
\* holds analytics fetched with sample_size S and analyticsSampleSize is S
\* (a request with sample_size S still in flight is let pass here); at all
\* times a non-null analytics value was produced by a request whose
\* sample_size equals analyticsSampleSize.
C21_SampleSizeFollowsStatus ==
    /\ [](AnalyticsOfSampleSize(dataStore))
    /\ [][(/\ LoadSyncStatusCompletes
           /\ dataStore'.user # NoUser
           /\ ReportsSampleSize(dataStore')
           /\ dataStore'.syncStatusError = NoError
           /\ dataStore'.analyticsError = NoError)
              => \/ HoldsStatusSample(dataStore')
                 \/ StatusSampleOnItsWay(dataStore', dataCalls')]_vars

\* the second half of C21 on its own
C21_AnalyticsOfSampleSize == AnalyticsOfSampleSize(dataStore)

-----------------------------------------------------------------------------
(* Watch-history store: errors of a refresh *)

\* this step ends refresh
RefreshCompletes ==
    uploadProc.pc \in {"refresh_status", "refresh_analytics"} /\ uploadProc'.pc = "idle"

\* C22: when refresh() of the watch-history store completes, error is
\* non-null whenever loadStatus or loadAnalytics failed during that refresh;
\* a failure of loadStatus is not lost by the loadAnalytics that follows.
C22_RefreshKeepsError ==
    [][RefreshCompletes /\ (refreshLog'.loadStatus \/ refreshLog'.loadAnalytics)
           => store'.error # NoError]_vars

\* the half of C22 about loadAnalytics on its own
C22_AnalyticsFailureKept ==
    [][RefreshCompletes /\ refreshLog'.loadAnalytics => store'.error # NoError]_vars

-----------------------------------------------------------------------------
(* Watch-history store: isUploading and the upload card *)

\* an uploadTakeout call is running
UploadRunning == uploadProc.pc # "idle"

\* this step starts an uploadTakeout call
UploadStarts == uploadProc'.pc = "sent" /\ uploadProc' # uploadProc

\* isUploading is true from the start of uploadTakeout until it finishes
\* and false after it on every path, and no upload starts during another
UploadingWhileRunning ==
    /\ [](store.isUploading = UploadRunning)
    /\ [][UploadStarts => ~UploadRunning /\ ~store.isUploading]_vars

\* C23 as stated: isUploading is true exactly while uploadTakeout runs, and
\* the drop zone and the delete button are unavailable exactly while
\* isUploading is true.
C23_AsStated ==
    /\ UploadingWhileRunning
    /\ [](~DropZoneShown(store) = store.isUploading)
    /\ [](~DeleteButtonShown(store) = store.isUploading)

\* C23: isUploading is true from the start of uploadTakeout until it
\* finishes and false after it finishes on every path; the drop zone is
\* available exactly while isUploading is false, the delete button exactly
\* while isUploading is false and the status has events, so neither is
\* available while isUploading is true and no second upload starts from
\* the card while one is in progress.
C23_UploadingGatesCard ==
    /\ UploadingWhileRunning
    /\ [](~DropZoneShown(store) = store.isUploading)
    /\ [](DeleteButtonShown(store) = (HasEvents(store) /\ ~store.isUploading))
    /\ [](store.isUploading => ~DropZoneShown(store) /\ ~DeleteButtonShown(store))

\* an upload has failed after another one succeeded: the card is available
\* again, with data to delete
C23_Witness ==
    /\ ~UploadRunning
    /\ ~store.isUploading
    /\ store.error = "upload_failed"
    /\ DropZoneShown(store)
    /\ DeleteButtonShown(store)

-----------------------------------------------------------------------------
(* Watch-history store: deleteHistory *)

\* what deleteHistory clears
Deleted(s) == <<s.analytics, s.status, s.lastUpdatedAt>>

NothingHeld == <<Null, Null, NoTime>>

\* this step is deleteHistory going on from the answer of the backend
DeleteEnds == deleteProc.pc # "idle" /\ deleteProc'.pc = "idle"

\* this step is the start of deleteHistory
DeleteStarts == deleteProc.pc = "idle" /\ deleteProc'.pc # "idle"

\* C24: deleteHistory is all-or-nothing in the store: when the backend
\* reports success, analytics, status and lastUpdatedAt become null
\* together; when it reports success=false or the call throws, the three
\* are unchanged and error is set.
C24_DeleteAllOrNothing ==
    [][/\ DeleteEnds =>
              \/ /\ deleteProc.pc = "responded" /\ deleteProc.success
                 /\ Deleted(store') = NothingHeld
                 /\ store'.error = store.error
              \/ /\ Deleted(store') = Deleted(store)
                 /\ store'.error # NoError
       /\ DeleteStarts => Deleted(store') = Deleted(store)]_vars

\* a deletion has failed with analytics and status loaded: they are kept
C24_Witness ==
    /\ deleteProc = ProcIdle
    /\ store.error = "delete_failed"
    /\ store.analytics # Null
    /\ store.status # Null
    /\ store.lastUpdatedAt # NoTime

====
